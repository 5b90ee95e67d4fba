------------------------ MODULE SignalExecutionProofs ------------------------
(***************************************************************************)
(* The safety of command execution for any number of replicas, handlers,   *)
(* commands, deliveries, crashes, dropped lock sessions and lost replies.  *)
(***************************************************************************)
EXTENDS ExecutionLedgerProofs

(* A leaf that names no prover is for Zenon, which does most of them at    *)
(* once, and for SMT where Zenon gives up.                                 *)
USE ZenonT(30), SMTT(60)

USE SerializerAssumption, CommandAssumption, DedupAssumption, LedgerAssumption,
    ExecutionAssumption

-----------------------------------------------------------------------------
(* At most one submission.  The serializer plays no part in the argument:  *)
(* the primary key of the recovery row does.  A handler about to submit    *)
(* inserted the row itself, a sent leg has a row, rows are never deleted.  *)

AboutToSubmit(l) == {t \in Task : pc[t] = "submit" /\ job[t] # NoCommand /\ Cur(t) = l}

OneSubmission ==
  \A l \in Leg :
    /\ submissions[l] <= 1
    /\ submissions[l] > 0 => pending[l].status # "absent" /\ AboutToSubmit(l) = {}
    /\ AboutToSubmit(l) # {} => pending[l].status # "absent"
    /\ \A t, u \in AboutToSubmit(l) : t = u

(* Every step but an insert leaves the set of handlers about to submit, or *)
(* shrinks it.                                                             *)
LEMMA SubmittersShrink ==
  ASSUME ExecutionTypeInv, [Next]_vars, \A t \in Task : ~Persist(t)
  PROVE  \A u \in Task : pc'[u] = "submit"
           => pc[u] = "submit" /\ job'[u] = job[u] /\ at'[u] = at[u]
<1> HandlerTypeOK /\ UnderWay
  BY TypeParts DEF ExecutionTypeInv
<1> DEFINE Goal == \A u \in Task : pc'[u] = "submit"
                     => pc[u] = "submit" /\ job'[u] = job[u] /\ at'[u] = at[u]
<1> USE DEF HandlerTypeOK
<1>a. ASSUME NEW t \in Task, NEW s \in Step \ {"submit"}, pc' = [pc EXCEPT ![t] = s],
             \A u \in Task \ {t} : job'[u] = job[u] /\ at'[u] = at[u]
      PROVE  Goal
  BY <1>a
<1>b. ASSUME NEW t \in Task, NEW res, NextLeg(t, res), UNCHANGED job PROVE Goal
  <2>1. PICK s \in {"create", "aggregate"} : pc' = [pc EXCEPT ![t] = s]
    BY <1>b DEF NextLeg, Goto
  <2>2. \A u \in Task \ {t} : job'[u] = job[u] /\ at'[u] = at[u]
    BY <1>b DEF NextLeg
  <2> QED BY <1>a, <2>1, <2>2 DEF Step
<1>c. ASSUME NEW t \in Task, Raise(t), UNCHANGED job PROVE Goal
  BY <1>a, <1>c DEF Raise, Goto, Step
<1>d. ASSUME NEW t \in Task, NEW a, Answer(t, a) PROVE Goal
  BY <1>a, <1>d DEF Answer, Goto, Step
<1>e. ASSUME NEW t \in Task, NEW s \in Step \ {"submit"}, Goto(t, s), UNCHANGED <<at, job>>
      PROVE  Goal
  BY <1>a, <1>e DEF Goto
<1>f. ASSUME UNCHANGED <<pc, at, job>> PROVE Goal
  BY <1>f
<1> HIDE DEF Goal
<1>1. ASSUME NEW t \in Task, HandlerStep(t) PROVE Goal
  <2>1. CASE EnterBusy(t) \/ LeaveUnlock(t)
    BY <2>1, <1>d DEF EnterBusy, LeaveUnlock
  <2>2. CASE EnterLock(t) \/ LeaveRow(t)
    BY <2>2, <1>f DEF EnterLock, LeaveRow, handlerVars
  <2>3. CASE EnterClaim(t) \/ EnterFails(t) \/ Claim(t) \/ Gate(t)
    BY <2>3, <1>e DEF EnterClaim, EnterFails, Claim, Gate, unmoved, Step
  <2>4. CASE CancelOne(t)
    BY <2>4, <1>f DEF CancelOne, unmoved
  <2>5. CASE CancelDone(t) \/ Submit(t) \/ Reply(t) \/ Finalize(t)
    BY <2>5, <1>e DEF CancelDone, Submit, Reply, Finalize, unmoved, Step
  <2>6. ASSUME NEW same \in BOOLEAN, Create(t, same) PROVE Goal
    BY <2>6, <1>b, <1>e DEF Create, unmoved, Step
  <2>7. CASE CreateFails(t) \/ Abort(t)
    BY <2>7, <1>b, <1>c DEF CreateFails, Abort, unmoved
  <2>8. CASE MarkUnknown(t) \/ MarkUnknownRow(t)
    BY <2>8, <1>b, <1>c, <1>e DEF MarkUnknown, MarkUnknownRow, unmoved, Step
  <2>9. CASE FetchFills(t) \/ ResolveCanonical(t) \/ ResolvePending(t)
    BY <2>9, <1>b, <1>e DEF FetchFills, ResolveCanonical, ResolvePending, KeepForRecovery,
       unmoved, Step
  <2>10. CASE Aggregate(t)
    BY <2>10, <1>c, <1>e DEF Aggregate, unmoved, Step
  <2> QED BY <1>1, <2>1, <2>2, <2>3, <2>4, <2>5, <2>6, <2>7, <2>8, <2>9, <2>10
          DEF HandlerStep
<1>2. ASSUME NEW t \in Task, NEW c \in Command, Deliver(t, c) PROVE Goal
  BY <1>2, <1>a DEF Deliver, Goto, Step
<1>3. ASSUME Environment PROVE Goal
  BY <1>3, <1>f DEF Environment, handlerVars
<1>4. ASSUME NEW r \in Replica, Crash(r) PROVE Goal
  <2>1. \A u \in Task : u \in Residents(r) => pc'[u] = "idle"
    BY <1>4 DEF Crash
  <2>2. \A u \in Task \ Residents(r) : pc'[u] = pc[u] /\ job'[u] = job[u] /\ at'[u] = at[u]
    BY <1>4 DEF Crash
  <2> QED BY <2>1, <2>2 DEF Goal
<1>5. ASSUME UNCHANGED vars PROVE Goal
  <2>1. UNCHANGED <<pc, at, job>>
    BY <1>5 DEF vars, handlerVars
  <2> QED BY <2>1, <1>f
<1>6. Goal
  BY <1>1, <1>2, <1>3, <1>4, <1>5 DEF Next
<1> QED BY <1>6 DEF Goal

(* Rows are never deleted, and only Submit counts a submission.            *)
LEMMA RowsStay ==
  ASSUME ExecutionTypeInv, [Next]_vars
  PROVE  /\ \A l \in Leg : pending[l].status # "absent" => pending'[l].status # "absent"
         /\ (\A t \in Task : ~Submit(t)) => submissions' = submissions
<1> HandlerTypeOK /\ UnderWay /\ LedgerTypeOK
  BY TypeParts DEF ExecutionTypeInv
<1>1. ASSUME NEW t \in Task, Recording(t)
      PROVE  /\ \A l \in Leg : pending[l].status # "absent" => pending'[l].status # "absent"
             /\ Submit(t) \/ submissions' = submissions
  <2>1. PICK l \in Leg : RowWrite(l)
    BY <1>1, RecordingWrites
  <2> QED BY <1>1, <2>1, PendingTyped, RecordingWrites
<1>2. ASSUME NEW l \in Leg, VenueProgress(l) PROVE UNCHANGED <<pending, submissions>>
  BY <1>2 DEF VenueProgress
<1>3. ASSUME NEW r \in Replica, Crash(r) PROVE UNCHANGED <<pending, submissions>>
  BY <1>3 DEF Crash
<1>4. ASSUME UNCHANGED ledgerVars PROVE UNCHANGED <<pending, submissions>>
  BY <1>4 DEF ledgerVars
<1> QED BY <1>1, <1>2, <1>3, <1>4, LedgerWriters

LEMMA OneSubmissionNext ==
  ASSUME ExecutionTypeInv, ExecutionTypeInv', OneSubmission, [Next]_vars
  PROVE  OneSubmission'
<1> HandlerTypeOK /\ UnderWay /\ LedgerTypeOK
  BY TypeParts DEF ExecutionTypeInv
<1>1. ASSUME NEW t \in Task, Persist(t) PROVE OneSubmission'
  <2>0. PICK k \in Leg : k = Cur(t)
    BY <1>1, CurLeg DEF Persist
  <2>1. submissions' = submissions /\ UNCHANGED <<job, at>>
    BY <1>1 DEF Persist, unmoved
  <2>2. \A l \in Leg : pending[l].status # "absent" => pending'[l].status # "absent"
    BY RowsStay
  <2>3. CASE PersistRow(k) /\ Goto(t, "submit")
    <3>1. pending[k].status = "absent" /\ pending'[k].status # "absent"
      BY <2>3 DEF PersistRow, CanPersist, LedgerTypeOK
    <3>2. AboutToSubmit(k) = {} /\ ~(submissions[k] > 0)
      BY <2>1, <3>1 DEF OneSubmission
    <3>3. \A l \in Leg \ {k} : AboutToSubmit(l)' = AboutToSubmit(l)
      BY <2>0, <2>1, <2>3, <1>1 DEF AboutToSubmit, Goto, Cur, HandlerTypeOK, Persist
    <3>4. AboutToSubmit(k)' \subseteq {t}
      BY <2>1, <2>3, <3>2 DEF AboutToSubmit, Goto, Cur, HandlerTypeOK
    <3>5. \A l \in Leg \ {k} : /\ submissions'[l] <= 1
                               /\ submissions'[l] > 0 => pending'[l].status # "absent"
                                                         /\ AboutToSubmit(l)' = {}
                               /\ AboutToSubmit(l)' # {} => pending'[l].status # "absent"
                               /\ \A v, u \in AboutToSubmit(l)' : v = u
      BY <2>1, <2>2, <3>3, SMTT(60) DEF OneSubmission
    <3>6. submissions'[k] <= 1 /\ ~(submissions'[k] > 0)
      BY <2>1, <3>2 DEF OneSubmission
    <3>7. \A v, u \in AboutToSubmit(k)' : v = u
      BY <3>4
    <3>8. \A l \in Leg : l = k \/ l \in Leg \ {k}
      OBVIOUS
    <3> QED BY <3>1, <3>5, <3>6, <3>7, <3>8 DEF OneSubmission
  <2>4. CASE Goto(t, "abort")
    <3>1. \A l \in Leg : AboutToSubmit(l)' \subseteq AboutToSubmit(l)
      BY <2>1, <2>4 DEF AboutToSubmit, Goto, Cur, HandlerTypeOK
    <3> QED BY <2>1, <2>2, <3>1 DEF OneSubmission
  <2> QED BY <1>1, <2>0, <2>3, <2>4 DEF Persist
<1>2. ASSUME NEW t \in Task, Submit(t) PROVE OneSubmission'
  <2>0. PICK k \in Leg : k = Cur(t)
    BY <1>2, CurLeg DEF Submit
  <2>1. job[t] # NoCommand /\ pc[t] = "submit"
    BY <1>2, CurLeg DEF Submit
  <2>2. submissions' = [submissions EXCEPT ![k] = @ + 1] /\ UNCHANGED <<job, at, pending>>
    BY <1>2, <2>0 DEF Submit, unmoved
  <2>3. t \in AboutToSubmit(k)
    BY <2>0, <2>1 DEF AboutToSubmit
  <2>4. AboutToSubmit(k) = {t} /\ ~(submissions[k] > 0) /\ pending[k].status # "absent"
    BY <2>1, <2>3, SMTT(60) DEF OneSubmission
  <2>5. submissions[k] = 0
    BY <2>1, <2>4, SMTT(60) DEF LedgerTypeOK
  <2>6. pc' = [pc EXCEPT ![t] = "reply"]
    BY <1>2 DEF Submit, Goto
  <2>7. AboutToSubmit(k)' = {}
    BY <2>2, <2>4, <2>6 DEF AboutToSubmit, Cur, HandlerTypeOK
  <2>8. \A l \in Leg : AboutToSubmit(l)' \subseteq AboutToSubmit(l)
    BY <2>2, <2>6 DEF AboutToSubmit, Cur, HandlerTypeOK
  <2>9. submissions'[k] = 1 /\ \A l \in Leg \ {k} : submissions'[l] = submissions[l]
    BY <2>1, <2>2, <2>5, SMTT(60) DEF LedgerTypeOK
  <2>10. ASSUME NEW l \in Leg \ {k}
         PROVE  /\ submissions'[l] <= 1
                /\ submissions'[l] > 0 => pending'[l].status # "absent"
                                          /\ AboutToSubmit(l)' = {}
                /\ AboutToSubmit(l)' # {} => pending'[l].status # "absent"
                /\ \A v, u \in AboutToSubmit(l)' : v = u
    BY <2>2, <2>8, <2>9, SMTT(60) DEF OneSubmission
  <2>11. submissions'[k] <= 1 /\ pending'[k].status # "absent"
    BY <2>2, <2>4, <2>9, SMTT(60)
  <2> QED BY <2>7, <2>10, <2>11 DEF OneSubmission
<1>3. CASE (\A t \in Task : ~Persist(t)) /\ (\A t \in Task : ~Submit(t))
  <2>1. \A l \in Leg : AboutToSubmit(l)' \subseteq AboutToSubmit(l)
    BY <1>3, SubmittersShrink DEF AboutToSubmit, Cur
  <2> QED BY <1>3, <2>1, RowsStay DEF OneSubmission
<1> QED BY <1>1, <1>2, <1>3

(* However often a command is delivered, a leg is sent to the venue at     *)
(* most once: create_order and the primary key of pending_orders.          *)
THEOREM NeverSubmittedTwice == Spec => []SubmittedOnce
<1>1. Init => OneSubmission
  BY SMTT(60) DEF Init, LedgerInit, OneSubmission, AboutToSubmit
<1>2. ExecutionTypeInv /\ OneSubmission /\ [Next]_vars => ExecutionTypeInv' /\ OneSubmission'
  BY ExecutionTypeNext, OneSubmissionNext
<1>3. OneSubmission => SubmittedOnce
  BY DEF OneSubmission, SubmittedOnce
<1> QED BY <1>1, <1>2, <1>3, ExecutionTypeInit, PTL DEF Spec
-----------------------------------------------------------------------------
(* One executor per command, and final decisions.  The decision row        *)
(* reserves the command for the one handler between claim and mark.        *)

Inside == Step \ {"idle", "enter", "claim", "leave"}

CommandReserved ==
  ~reclaim => \A c \in Command : \A t \in Executing(c) :
                decision[c] = "executing" /\ \A u \in Executing(c) : u = t

LEMMA ExecutorsShrink ==
  ASSUME ExecutionTypeInv, [Next]_vars, \A t \in Task : ~Claim(t)
  PROVE  \A u \in Task : pc'[u] \in Inside => pc[u] \in Inside /\ job'[u] = job[u]
<1> HandlerTypeOK /\ UnderWay
  BY TypeParts DEF ExecutionTypeInv
<1> DEFINE Goal == \A u \in Task : pc'[u] \in Inside => pc[u] \in Inside /\ job'[u] = job[u]
<1> USE DEF HandlerTypeOK
<1>a. ASSUME NEW t \in Task, NEW s \in Step, pc' = [pc EXCEPT ![t] = s],
             s \in Inside => pc[t] \in Inside /\ job'[t] = job[t],
             \A u \in Task \ {t} : job'[u] = job[u]
      PROVE  Goal
  BY <1>a
<1>b. ASSUME NEW t \in Task, NEW res, pc[t] \in Inside, NextLeg(t, res), UNCHANGED job PROVE Goal
  <2>1. PICK s \in {"create", "aggregate"} : pc' = [pc EXCEPT ![t] = s]
    BY <1>b DEF NextLeg, Goto
  <2> QED BY <1>a, <1>b, <2>1 DEF Step
<1>c. ASSUME NEW t \in Task, pc[t] \in Inside, Raise(t), UNCHANGED job PROVE Goal
  BY <1>a, <1>c DEF Raise, Goto, Step
<1>d. ASSUME NEW t \in Task, NEW a, Answer(t, a) PROVE Goal
  BY <1>a, <1>d DEF Answer, Goto, Step, Inside
<1>e. ASSUME NEW t \in Task, NEW s \in Step, Goto(t, s), UNCHANGED job,
             s \in Inside => pc[t] \in Inside
      PROVE  Goal
  BY <1>a, <1>e DEF Goto
<1>f. ASSUME UNCHANGED <<pc, job>> PROVE Goal
  BY <1>f
<1> HIDE DEF Goal
<1>1. ASSUME NEW t \in Task, HandlerStep(t) PROVE Goal
  <2> USE DEF Inside
  <2>1. CASE EnterBusy(t) \/ LeaveUnlock(t)
    BY <2>1, <1>d DEF EnterBusy, LeaveUnlock
  <2>2. CASE EnterLock(t) \/ LeaveRow(t)
    BY <2>2, <1>f DEF EnterLock, LeaveRow, handlerVars
  <2>3. CASE EnterClaim(t) \/ EnterFails(t)
    BY <2>3, <1>e DEF EnterClaim, EnterFails, unmoved, Step
  <2>4. CASE Gate(t) \/ CancelDone(t) \/ Persist(t)
    BY <2>4, <1>e DEF Gate, CancelDone, Persist, unmoved, Step
  <2>5. CASE CancelOne(t)
    BY <2>5, <1>f DEF CancelOne, unmoved
  <2>6. CASE Submit(t) \/ Reply(t) \/ Finalize(t)
    BY <2>6, <1>e DEF Submit, Reply, Finalize, unmoved, Step
  <2>7. ASSUME NEW same \in BOOLEAN, Create(t, same) PROVE Goal
    BY <2>7, <1>b, <1>e DEF Create, unmoved, Step
  <2>8. CASE CreateFails(t) \/ Abort(t)
    BY <2>8, <1>b, <1>c DEF CreateFails, Abort, unmoved, Step
  <2>9. CASE MarkUnknown(t) \/ MarkUnknownRow(t)
    BY <2>9, <1>b, <1>c, <1>e DEF MarkUnknown, MarkUnknownRow, unmoved, Step
  <2>10. CASE FetchFills(t) \/ ResolveCanonical(t) \/ ResolvePending(t)
    BY <2>10, <1>b, <1>e DEF FetchFills, ResolveCanonical, ResolvePending, KeepForRecovery,
       unmoved, Step
  <2>11. CASE Aggregate(t)
    BY <2>11, <1>c, <1>e DEF Aggregate, unmoved, Step
  <2> QED BY <1>1, <2>1, <2>2, <2>3, <2>4, <2>5, <2>6, <2>7, <2>8, <2>9, <2>10, <2>11
          DEF HandlerStep
<1>2. ASSUME NEW t \in Task, NEW c \in Command, Deliver(t, c) PROVE Goal
  BY <1>2, <1>a DEF Deliver, Goto, Step, Inside
<1>3. ASSUME Environment PROVE Goal
  BY <1>3, <1>f DEF Environment, handlerVars
<1>4. ASSUME NEW r \in Replica, Crash(r) PROVE Goal
  <2>1. \A u \in Task : u \in Residents(r) => pc'[u] = "idle"
    BY <1>4 DEF Crash
  <2>2. \A u \in Task \ Residents(r) : pc'[u] = pc[u] /\ job'[u] = job[u]
    BY <1>4 DEF Crash
  <2> QED BY <2>1, <2>2 DEF Goal, Inside
<1>5. ASSUME UNCHANGED vars PROVE Goal
  <2>1. UNCHANGED <<pc, job>>
    BY <1>5 DEF vars, handlerVars
  <2> QED BY <2>1, <1>f
<1>6. Goal
  BY <1>1, <1>2, <1>3, <1>4, <1>5 DEF Next
<1> QED BY <1>6 DEF Goal

(* What a step does to the decision rows.                                  *)
LEMMA DecisionStep ==
  ASSUME ExecutionTypeInv, [Next]_vars
  PROVE  /\ reclaim' = reclaim
         /\ (\A t \in Task : ~Claim(t) /\ ~Finalize(t)) => decision' = decision
         /\ \A t \in Task, c \in Command :
              /\ Claim(t) /\ decision'[c] # decision[c]
                   => c = job[t] /\ Claimable(c) /\ decision'[c] = "executing"
              /\ Finalize(t) /\ decision'[c] # decision[c] => c = job[t]
<1> HandlerTypeOK /\ UnderWay /\ DedupTypeOK
  BY TypeParts DEF ExecutionTypeInv
<1>1. ASSUME NEW t \in Task, Claim(t)
      PROVE  /\ reclaim' = reclaim
             /\ \A c \in Command : decision'[c] # decision[c]
                   => c = job[t] /\ Claimable(c) /\ decision'[c] = "executing"
  <2>1. ClaimDatabase(job[t]) \/ decision' = decision
    BY <1>1 DEF Claim, ClaimExecution, ClaimRaises, dedupVars
  <2>2. reclaim' = reclaim
    BY <1>1 DEF Claim, ClaimExecution, ClaimRaises, dedupVars
  <2> QED BY <2>1, <2>2, SMTT(60) DEF ClaimDatabase, DedupTypeOK
<1>2. ASSUME NEW t \in Task, Finalize(t)
      PROVE  reclaim' = reclaim /\ \A c \in Command : decision'[c] # decision[c] => c = job[t]
  BY <1>2, SMTT(60) DEF Finalize, MarkExecuted, DedupTypeOK
<1>3. ASSUME NEW r \in Replica, NEW c \in Command, MemoryExpires(r, c)
      PROVE  UNCHANGED <<reclaim, decision>>
  BY <1>3 DEF MemoryExpires
<1>4. ASSUME NEW c \in Command, GoesStale(c) PROVE UNCHANGED <<reclaim, decision>>
  BY <1>4 DEF GoesStale
<1>5. ASSUME NEW r \in Replica, Crash(r) PROVE UNCHANGED <<reclaim, decision>>
  BY <1>5 DEF Crash, ForgetMemory
<1>6. ASSUME UNCHANGED dedupVars PROVE UNCHANGED <<reclaim, decision>>
  BY <1>6 DEF dedupVars
<1> QED BY <1>1, <1>2, <1>3, <1>4, <1>5, <1>6, DedupWriters

LEMMA CommandReservedNext ==
  ASSUME ExecutionTypeInv, CommandReserved, [Next]_vars PROVE CommandReserved'
<1> SUFFICES ASSUME ~reclaim', NEW c \in Command, NEW t \in Executing(c)'
             PROVE  decision'[c] = "executing" /\ \A u \in Executing(c)' : u = t
  BY DEF CommandReserved
<1> HandlerTypeOK /\ UnderWay
  BY TypeParts DEF ExecutionTypeInv
<1> ~reclaim /\ t \in Task
  BY DecisionStep, SMTT(60) DEF Executing
<1>1. ASSUME NEW w \in Task, Claim(w)
      PROVE  decision'[c] = "executing" /\ \A u \in Executing(c)' : u = t
  <2>1. /\ \A u \in Task \ {w} : pc'[u] = pc[u]
        /\ \A u \in Task : job'[u] = job[u]
    BY <1>1 DEF Claim, Goto, HandlerTypeOK, unmoved
  <2>2. Executing(c)' \subseteq Executing(c) \union {w}
    BY <2>1 DEF Executing
  <2>3. CASE w \notin Executing(c)'
    <3>1. t \in Executing(c) /\ \A u \in Executing(c)' : u = t
      BY <2>2, <2>3 DEF CommandReserved
    <3>2. ~Claimable(c)
      BY <3>1 DEF CommandReserved, Claimable
    <3> QED BY <1>1, <3>1, <3>2, DecisionStep DEF CommandReserved
  <2>4. CASE w \in Executing(c)'
    <3>1. job[w] = c /\ ClaimExecution(Home[w], job[w])
      <4>1. job[w] = c /\ pc'[w] # "leave"
        BY <2>1, <2>4 DEF Executing
      <4> QED BY <1>1, <4>1 DEF Claim, Goto, HandlerTypeOK
    <3>2. Claimable(c) /\ decision'[c] = "executing"
      BY <3>1 DEF ClaimExecution, ClaimDatabase, ExecutionTypeInv, TypeOK, DedupTypeOK
    <3>3. Executing(c) = {}
      BY <3>2 DEF Claimable, CommandReserved
    <3> QED BY <2>2, <3>2, <3>3
  <2> QED BY <2>3, <2>4
<1>2. ASSUME NEW w \in Task, Finalize(w)
      PROVE  decision'[c] = "executing" /\ \A u \in Executing(c)' : u = t
  <2>1. pc' = [pc EXCEPT ![w] = "leave"] /\ job' = job /\ pc[w] = "finalize"
    BY <1>2 DEF Finalize, Goto
  <2>2. Executing(c)' = Executing(c) \ {w}
    BY <2>1 DEF Executing, HandlerTypeOK
  <2>3. t \in Executing(c) /\ t # w
    BY <2>2
  <2>4. w \notin Executing(c)
    BY <2>3 DEF CommandReserved
  <2>5. job[w] # c
    BY <2>1, <2>4 DEF Executing
  <2> QED BY <1>2, <2>2, <2>3, <2>5, DecisionStep DEF CommandReserved
<1>3. CASE \A w \in Task : ~Claim(w) /\ ~Finalize(w)
  <2>1. \A u \in Task : pc'[u] \in Inside => pc[u] \in Inside /\ job'[u] = job[u]
    BY <1>3, ExecutorsShrink
  <2>2. pc' \in [Task -> Step]
    BY ExecutionTypeNext, TypeParts DEF ExecutionTypeInv, TypeOK
  <2>3. Executing(c)' \subseteq Executing(c)
    BY <2>1, <2>2 DEF Executing, Inside
  <2>4. decision' = decision
    BY <1>3, DecisionStep
  <2> QED BY <2>3, <2>4 DEF CommandReserved
<1> QED BY <1>1, <1>2, <1>3

LEMMA CommandReservedAlways == Spec => [](ExecutionTypeInv /\ CommandReserved)
<1>1. Init => CommandReserved
  BY DEF Init, CommandReserved, Executing
<1>2. ExecutionTypeInv /\ CommandReserved /\ [Next]_vars => ExecutionTypeInv' /\ CommandReserved'
  BY ExecutionTypeNext, CommandReservedNext
<1> QED BY <1>1, <1>2, ExecutionTypeInit, PTL DEF Spec

(* With stale reclaim off, two handlers never execute one command, even    *)
(* when both are inside the account section.                               *)
THEOREM OneExecutorPerCommand == Spec => []OneExecutor
<1>1. CommandReserved => OneExecutor
  BY DEF CommandReserved, OneExecutor
<1> QED BY <1>1, CommandReservedAlways, PTL

(* With stale reclaim off, no redelivery reopens an executed or rejected   *)
(* command.                                                                *)
THEOREM DecisionsFinal == Spec => DecisionFinal
<1> DEFINE Final == ~reclaim => \A c \in Command : decision[c] \in {"executed", "rejected"}
                                                     => decision'[c] = decision[c]
<1>1. ExecutionTypeInv /\ CommandReserved /\ [Next]_vars => [Final]_vars
  <2> SUFFICES ASSUME ExecutionTypeInv, CommandReserved, [Next]_vars, ~reclaim,
                      NEW c \in Command, decision[c] \in {"executed", "rejected"},
                      decision'[c] # decision[c]
               PROVE  FALSE
    OBVIOUS
  <2>1. PICK t \in Task : Claim(t) \/ Finalize(t)
    BY DecisionStep
  <2>2. CASE Claim(t)
    BY <2>2, DecisionStep DEF Claimable
  <2>3. CASE Finalize(t)
    <3>1. c = job[t] /\ pc[t] = "finalize"
      BY <2>3, DecisionStep DEF Finalize
    <3>2. t \in Executing(c)
      BY <3>1 DEF Executing
    <3> QED BY <3>2 DEF CommandReserved
  <2> QED BY <2>1, <2>2, <2>3
<1> QED BY <1>1, CommandReservedAlways, PTL DEF Spec, DecisionFinal

-----------------------------------------------------------------------------
(* A closed row means a dead order, and a protective exit a traded entry.  *)
(* Both rest on what a handler carries from the venue's answer, or from    *)
(* the ledger when it replays, to its commits: a terminal result is one of *)
(* an order the venue has finished with, a filled one of an order that     *)
(* traded.  Neither is ever undone, so the handler may be as late as it    *)
(* likes.  The first needs adapters that do not report a lost reply as a   *)
(* rejection; the second does not.                                         *)

Honest == "rejected" \notin LostReply

Gone(l) == submissions[l] > 0 /\ venue[l].state # "open"

LegDead(l) ==
  Honest => /\ canonical[l].state \in TerminalState => canonical[l].abort \/ Gone(l)
            /\ pending[l].status \notin Recoverable \union {"absent"} => Gone(l)

Reporting == {"fills", "resolve", "resolve_row"}

Reported(t) ==
  pc[t] \in Reporting =>
    /\ work[t].res.qty > 0 => venue[Cur(t)].qty > 0
    /\ Honest /\ work[t].res.status \in TerminalStatus => Gone(Cur(t))

Concluding == {"aggregate", "finalize", "leave"}

EntryTraded(t) ==
  /\ at[t] = "primary" /\ pc[t] \notin {"idle"} \union Concluding => ~work[t].filled
  /\ pc[t] # "idle" /\ at[t] = "exit" => venue[Primary(job[t])].qty > 0

DeadInv ==
  /\ \A l \in Leg : LegDead(l)
  /\ \A t \in Task : Reported(t) /\ EntryTraded(t)
  /\ ExitAfterFill

(* What the venue has finished with stays finished, what traded stays      *)
(* traded: an order is placed by its first submission only.                *)
LEMMA VenueForward ==
  ASSUME ExecutionTypeInv, AttemptInv, FillsInv, [Next]_vars, NEW l \in Leg
  PROVE  /\ Gone(l) => Gone(l)'
         /\ venue[l].qty > 0 => venue'[l].qty > 0
<1> HandlerTypeOK /\ UnderWay /\ LedgerTypeOK /\ Attempt(l) /\ ExecutionTypeInv'
  BY TypeParts, ExecutionTypeNext DEF ExecutionTypeInv, AttemptInv
<1>0. venue[l].qty \in Nat /\ venue'[l].qty \in Nat /\ submissions[l] \in Nat
  <2>1. venue[l] \in VenueOrder /\ venue'[l] \in VenueOrder /\ submissions[l] \in Nat
    BY TypeParts DEF ExecutionTypeInv, TypeOK, LedgerTypeOK
  <2> QED BY <2>1, SMTT(60) DEF VenueOrder
<1>1. venue[l].qty > 0 => venue'[l].qty > 0
  BY <1>0, VenueGrows, SMTT(60)
<1>2. ASSUME Gone(l) PROVE Gone(l)'
  <2>0. submissions[l] > 0 /\ venue[l].state # "open"
    BY <1>2 DEF Gone
  <2>1. ASSUME NEW t \in Task, Submit(t)
        PROVE  submissions'[l] = submissions[l] /\ venue'[l] = venue[l]
    <3>1. PICK k \in Leg : k = Cur(t)
      BY <2>1, CurLeg DEF Submit
    <3>2. k # l
      <4>1. k = l => t \in InHand(l)
        BY <2>1, <3>1 DEF Submit, InHand
      <4> QED BY <1>0, <2>0, <4>1, SMTT(60) DEF Attempt
    <3>3. submissions' = [submissions EXCEPT ![k] = @ + 1]
      BY <2>1, <3>1 DEF Submit
    <3>4. (\E o : venue' = [venue EXCEPT ![k] = o]) \/ UNCHANGED venue
      BY <2>1, <3>1 DEF Submit, VenueAccepts
    <3> QED BY <3>2, <3>3, <3>4 DEF LedgerTypeOK
  <2>2. ASSUME NEW t \in Task, CancelOne(t)
        PROVE  submissions'[l] = submissions[l] /\ venue'[l].state # "open"
    <3>1. PICK k \in Leg : venue' = [venue EXCEPT ![k].state = "canceled"] \/ UNCHANGED venue
      BY <2>2, LocalFields DEF CancelOne, HandlerTypeOK
    <3>2. UNCHANGED submissions
      BY <2>2 DEF CancelOne
    <3>3. venue[k] \in VenueOrder
      BY DEF LedgerTypeOK
    <3>4. CASE k = l /\ venue' = [venue EXCEPT ![k].state = "canceled"]
      BY <3>2, <3>3, <3>4 DEF LedgerTypeOK, VenueOrder
    <3>5. CASE k # l \/ UNCHANGED venue
      BY <2>0, <3>1, <3>2, <3>5 DEF LedgerTypeOK
    <3> QED BY <3>1, <3>4, <3>5
  <2>3. ASSUME NEW k \in Leg, VenueProgress(k)
        PROVE  submissions'[l] = submissions[l] /\ venue'[l] = venue[l]
    <3>1. k # l
      BY <2>0, <2>3 DEF VenueProgress
    <3>2. (\E o : venue' = [venue EXCEPT ![k] = o]) /\ UNCHANGED submissions
      BY <2>3 DEF VenueProgress, LedgerTypeOK
    <3> QED BY <3>1, <3>2 DEF LedgerTypeOK
  <2>4. ASSUME NEW t \in Task, Recording(t), ~Submit(t), ~CancelOne(t)
        PROVE  UNCHANGED <<venue, submissions>>
    BY <2>4, ZenonT(60) DEF Recording, Create, CreateFails, Persist, Abort, MarkUnknown,
       MarkUnknownRow, FetchFills, ResolveCanonical, ResolvePending
  <2>5. ASSUME NEW r \in Replica, Crash(r) PROVE UNCHANGED <<venue, submissions>>
    BY <2>5 DEF Crash
  <2>6. ASSUME UNCHANGED ledgerVars PROVE UNCHANGED <<venue, submissions>>
    BY <2>6 DEF ledgerVars
  <2>7. submissions'[l] = submissions[l] /\ venue'[l].state # "open"
    BY <2>0, <2>1, <2>2, <2>3, <2>4, <2>5, <2>6, LedgerWriters
  <2> QED BY <2>0, <2>7 DEF Gone
<1> QED BY <1>1, <1>2

(* A result that closes an order is applied to one the venue has finished  *)
(* with; an abort closes an order without submission, and says so.         *)
LEMMA CanonicalDead ==
  ASSUME ExecutionTypeInv, AttemptInv, FillsInv, DeadInv, [Next]_vars, Honest, NEW l \in Leg,
         canonical'[l].state \in TerminalState
  PROVE  canonical'[l].abort \/ Gone(l)'
<1> HandlerTypeOK /\ UnderWay /\ LedgerTypeOK /\ LegDead(l) /\ Attempt(l)
  BY TypeParts DEF ExecutionTypeInv, DeadInv, AttemptInv
<1> canonical[l] \in Canonical /\ venue[l] \in VenueOrder
  BY DEF LedgerTypeOK
<1>0. ASSUME canonical'[l].abort = canonical[l].abort, canonical[l].state \in TerminalState
      PROVE  canonical'[l].abort \/ Gone(l)'
  BY <1>0, VenueForward DEF LegDead
<1>1. ASSUME canonical'[l] = canonical[l] PROVE canonical'[l].abort \/ Gone(l)'
  BY <1>0, <1>1
<1>2. ASSUME NEW k \in Leg, CreateOrder(k) PROVE canonical'[l] = canonical[l]
  BY <1>2 DEF CreateOrder, LedgerTypeOK, Canonical, TerminalState
<1>3. ASSUME NEW k \in Leg, AbortPreSubmission(k)
      PROVE  canonical'[l] = canonical[l] \/ canonical'[l].abort
  BY <1>3 DEF AbortPreSubmission, LedgerTypeOK, Canonical
<1>4. ASSUME NEW k \in Leg, MarkCanonicalUnknown(k) PROVE canonical'[l] = canonical[l]
  BY <1>4 DEF MarkCanonicalUnknown, LedgerTypeOK, Canonical, TerminalState
<1>5. ASSUME NEW t \in Task, CancelOne(t) PROVE canonical'[l] = canonical[l] \/ Gone(l)'
  <2>1. PICK k \in Leg : \/ UNCHANGED canonical
                         \/ /\ CancelAtVenue(t, k) /\ CancelWorking(k) /\ UNCHANGED submissions
                            /\ venue' = [venue EXCEPT ![k].state = "canceled"]
    BY <1>5, LocalFields DEF CancelOne, HandlerTypeOK
  <2>2. CASE UNCHANGED canonical \/ k # l
    BY <2>1, <2>2 DEF CancelWorking, LedgerTypeOK
  <2>3. CASE k = l /\ ~UNCHANGED canonical
    <3>1. venue[l].state = "open" /\ venue'[l].state = "canceled" /\ submissions'[l] = submissions[l]
      BY <2>1, <2>3, SMTT(60) DEF CancelAtVenue, LedgerTypeOK, VenueOrder
    <3>2. submissions[l] > 0
      BY <3>1, SMTT(60) DEF Attempt, LedgerTypeOK
    <3> QED BY <3>1, <3>2 DEF Gone
  <2> QED BY <2>2, <2>3
<1>6. ASSUME NEW t \in Task, ResolveCanonical(t) PROVE canonical'[l].abort \/ Gone(l)'
  <2>1. Cur(t) \in Leg /\ Reported(t) /\ work[t].res.status \in BrokerStatus
    <3>1. work[t].res \in Result
      BY LocalFields DEF HandlerTypeOK
    <3> QED BY <1>6, <3>1, CurLeg, ResultFields DEF ResolveCanonical, DeadInv
  <2>2. CASE Cur(t) # l \/ UNCHANGED canonical
    <3>1. canonical'[l] = canonical[l]
      BY <1>6, <2>1, <2>2 DEF ResolveCanonical, ApplyBrokerResult, LedgerTypeOK
    <3> QED BY <1>1, <3>1
  <2>3. CASE Cur(t) = l /\ ApplyBrokerResult(l, work[t].res, work[t].fills)
    <3>1. /\ canonical'[l].state = IF canonical[l].state = "filled" THEN "filled"
                                   ELSE OrderStateOf[work[t].res.status]
          /\ canonical'[l].abort = canonical[l].abort
      BY <2>3 DEF ApplyBrokerResult, LedgerTypeOK, Canonical
    <3>2. CASE canonical[l].state = "filled"
      BY <1>0, <3>1, <3>2 DEF TerminalState
    <3>3. CASE canonical[l].state # "filled"
      <4>1. OrderStateOf[work[t].res.status] \in TerminalState
        BY <3>1, <3>3
      <4>2. work[t].res.status \in TerminalStatus
        BY <2>1, <4>1, SMTT(60) DEF OrderStateOf, TerminalState, TerminalStatus, BrokerStatus
      <4>3. Gone(l)
        BY <1>6, <2>1, <2>3, <4>2 DEF Reported, Reporting, ResolveCanonical
      <4> QED BY <4>3, VenueForward
    <3> QED BY <3>2, <3>3
  <2> QED BY <1>6, <2>2, <2>3 DEF ResolveCanonical
<1>7. ASSUME NEW t \in Task, Recording(t), ~CancelOne(t), ~ResolveCanonical(t)
      PROVE  canonical'[l] = canonical[l] \/ canonical'[l].abort
  <2>1. PICK k \in Leg : k = Cur(t)
    <3>1. pc[t] # "idle"
      BY <1>7, ZenonT(60) DEF Recording, CancelOne, Create, CreateFails, Persist, Abort, Submit,
         MarkUnknown, MarkUnknownRow, FetchFills, ResolveCanonical, ResolvePending
    <3> QED BY <3>1, CurLeg
  <2>2. ASSUME NEW same \in BOOLEAN, Create(t, same) PROVE CreateOrder(k) \/ UNCHANGED canonical
    BY <2>1, <2>2, ZenonT(60) DEF Create
  <2>3. CreateFails(t) => CreateOrder(k) \/ UNCHANGED canonical
    BY <2>1, ZenonT(60) DEF CreateFails
  <2>4. Abort(t) => AbortPreSubmission(k) \/ UNCHANGED canonical
    BY <2>1, ZenonT(60) DEF Abort
  <2>5. MarkUnknown(t) => MarkCanonicalUnknown(k) \/ UNCHANGED canonical
    BY <2>1, ZenonT(60) DEF MarkUnknown
  <2>6. Persist(t) \/ Submit(t) \/ MarkUnknownRow(t) \/ FetchFills(t) \/ ResolvePending(t)
          => UNCHANGED canonical
    BY DEF Persist, Submit, MarkUnknownRow, FetchFills, ResolvePending
  <2>7. \/ CreateOrder(k) \/ AbortPreSubmission(k) \/ MarkCanonicalUnknown(k) \/ UNCHANGED canonical
    BY <1>7, <2>2, <2>3, <2>4, <2>5, <2>6, ZenonT(60) DEF Recording
  <2> QED BY <1>2, <1>3, <1>4, <2>7
<1>8. ASSUME NEW k \in Leg, VenueProgress(k) PROVE canonical'[l] = canonical[l]
  BY <1>8 DEF VenueProgress
<1>9. ASSUME NEW r \in Replica, Crash(r) PROVE canonical'[l] = canonical[l]
  BY <1>9 DEF Crash
<1>10. ASSUME UNCHANGED ledgerVars PROVE canonical'[l] = canonical[l]
  BY <1>10 DEF ledgerVars
<1>11. ASSUME NEW t \in Task, Recording(t) PROVE canonical'[l].abort \/ Gone(l)'
  BY <1>1, <1>5, <1>6, <1>7, <1>11, ZenonT(60)
<1> QED BY <1>1, <1>8, <1>9, <1>10, <1>11, LedgerWriters

(* A row is closed only by such a result, or after a confirmed cancel.     *)
LEMMA RowDead ==
  ASSUME ExecutionTypeInv, AttemptInv, FillsInv, DeadInv, [Next]_vars, Honest, NEW l \in Leg,
         pending'[l].status \notin Recoverable \union {"absent"}
  PROVE  Gone(l)'
<1> HandlerTypeOK /\ UnderWay /\ LedgerTypeOK /\ LegDead(l) /\ Attempt(l)
  BY TypeParts DEF ExecutionTypeInv, DeadInv, AttemptInv
<1> pending[l] \in PendingRow /\ venue[l] \in VenueOrder
  BY DEF LedgerTypeOK
<1>1. ASSUME pending'[l] = pending[l] PROVE Gone(l)'
  BY <1>1, VenueForward DEF LegDead
<1>2. ASSUME NEW t \in Task, CancelOne(t) PROVE pending'[l] = pending[l] \/ Gone(l)'
  <2>1. PICK k \in Leg : \/ UNCHANGED pending
                         \/ /\ CancelAtVenue(t, k) /\ CancelWorking(k) /\ UNCHANGED submissions
                            /\ venue' = [venue EXCEPT ![k].state = "canceled"]
    BY <1>2, LocalFields DEF CancelOne, HandlerTypeOK
  <2>2. CASE UNCHANGED pending \/ k # l
    BY <2>1, <2>2 DEF CancelWorking, LedgerTypeOK
  <2>3. CASE k = l /\ ~UNCHANGED pending
    <3>1. venue[l].state = "open" /\ venue'[l].state = "canceled" /\ submissions'[l] = submissions[l]
      BY <2>1, <2>3, SMTT(60) DEF CancelAtVenue, LedgerTypeOK, VenueOrder
    <3>2. submissions[l] > 0
      BY <3>1, SMTT(60) DEF Attempt, LedgerTypeOK
    <3> QED BY <3>1, <3>2 DEF Gone
  <2> QED BY <2>2, <2>3
<1>3. ASSUME NEW t \in Task, ResolvePending(t) PROVE pending'[l] = pending[l] \/ Gone(l)'
  <2>1. Cur(t) \in Leg /\ Reported(t) /\ work[t].res.status \in BrokerStatus
    <3>1. work[t].res \in Result
      BY LocalFields DEF HandlerTypeOK
    <3> QED BY <1>3, <3>1, CurLeg, ResultFields DEF ResolvePending, DeadInv
  <2>2. CASE Cur(t) = l /\ ResolveRow(l, work[t].res)
    <3>1. pending'[l].status = RowStatusOf[work[t].res.status]
      BY <2>2 DEF ResolveRow, LedgerTypeOK
    <3>2. work[t].res.status \in TerminalStatus
      BY <2>1, <3>1, SMTT(60) DEF RowStatusOf, Recoverable, TerminalStatus, BrokerStatus
    <3>3. Gone(l)
      BY <1>3, <2>1, <2>2, <3>2 DEF Reported, Reporting, ResolvePending
    <3> QED BY <3>3, VenueForward
  <2>3. CASE ~(Cur(t) = l /\ ResolveRow(l, work[t].res))
    BY <1>3, <2>1, <2>3, ZenonT(60) DEF ResolvePending, ResolveRow, LedgerTypeOK
  <2> QED BY <2>2, <2>3
<1>4. ASSUME NEW t \in Task, Persist(t) PROVE pending'[l] = pending[l]
  BY <1>4, SMTT(60) DEF Persist, PersistRow, LedgerTypeOK, Recoverable
<1>5. ASSUME NEW t \in Task, MarkUnknownRow(t) PROVE pending'[l] = pending[l]
  <2>1. PICK k \in Leg : k = Cur(t)
    BY <1>5, CurLeg DEF MarkUnknownRow
  <2>2. MarkRowUnknown(k) \/ UNCHANGED pending
    BY <1>5, <2>1, ZenonT(60) DEF MarkUnknownRow
  <2> QED BY <2>2, SMTT(60) DEF MarkRowUnknown, LedgerTypeOK, PendingRow, Recoverable
<1>6. ASSUME NEW t \in Task, Recording(t), ~CancelOne(t), ~ResolvePending(t), ~Persist(t),
             ~MarkUnknownRow(t)
      PROVE  UNCHANGED pending
  BY <1>6, ZenonT(60) DEF Recording, Create, CreateFails, Abort, Submit, MarkUnknown, FetchFills,
     ResolveCanonical
<1>7. ASSUME NEW k \in Leg, VenueProgress(k) PROVE UNCHANGED pending
  BY <1>7 DEF VenueProgress
<1>8. ASSUME NEW r \in Replica, Crash(r) PROVE UNCHANGED pending
  BY <1>8 DEF Crash
<1>9. ASSUME UNCHANGED ledgerVars PROVE UNCHANGED pending
  BY <1>9 DEF ledgerVars
<1>10. pending'[l] = pending[l] \/ Gone(l)'
  BY <1>2, <1>3, <1>4, <1>5, <1>6, <1>7, <1>8, <1>9, LedgerWriters
<1> QED BY <1>1, <1>10

(* A handler that keeps its result, or drops it, still tells the truth.    *)
LEMMA ReportedKept ==
  ASSUME ExecutionTypeInv, AttemptInv, FillsInv, DeadInv, [Next]_vars, NEW u \in Task,
         \/ pc'[u] \notin Reporting
         \/ pc[u] \in Reporting /\ Cur(u)' = Cur(u) /\ work'[u].res = work[u].res
  PROVE  Reported(u)'
<1> HandlerTypeOK /\ UnderWay /\ Reported(u)
  BY TypeParts DEF ExecutionTypeInv, DeadInv
<1>1. CASE pc'[u] \notin Reporting
  BY <1>1 DEF Reported
<1>2. CASE pc[u] \in Reporting /\ Cur(u)' = Cur(u) /\ work'[u].res = work[u].res
  <2>1. PICK k \in Leg : k = Cur(u)
    BY <1>2, CurLeg DEF Reporting
  <2>2. /\ work[u].res.qty > 0 => venue[k].qty > 0
        /\ Honest /\ work[u].res.status \in TerminalStatus => Gone(k)
    BY <1>2, <2>1 DEF Reported
  <2>3. /\ work[u].res.qty > 0 => venue'[k].qty > 0
        /\ Honest /\ work[u].res.status \in TerminalStatus => Gone(k)'
    BY <2>2, VenueForward
  <2>4. Cur(u)' = k
    BY <1>2, <2>1
  <2>5. Gone(k)' => Gone(Cur(u))'
    BY <2>4 DEF Gone
  <2> QED BY <1>2, <2>3, <2>4, <2>5 DEF Reported
<1> QED BY <1>1, <1>2

LEMMA EntryKept ==
  ASSUME ExecutionTypeInv, AttemptInv, FillsInv, DeadInv, [Next]_vars, NEW u \in Task,
         \/ pc'[u] = "idle"
         \/ at'[u] = "primary" /\ ~work'[u].filled
         \/ /\ job'[u] = job[u] /\ at'[u] = at[u] /\ pc[u] # "idle"
            /\ \/ ~work'[u].filled
               \/ work'[u].filled = work[u].filled /\ (pc[u] \in Concluding => pc'[u] \in Concluding)
  PROVE  EntryTraded(u)'
<1> HandlerTypeOK /\ UnderWay /\ EntryTraded(u)
  BY TypeParts DEF ExecutionTypeInv, DeadInv
<1>1. CASE pc'[u] = "idle" \/ (at'[u] = "primary" /\ ~work'[u].filled)
  BY <1>1 DEF EntryTraded
<1>2. CASE /\ job'[u] = job[u] /\ at'[u] = at[u] /\ pc[u] # "idle"
           /\ \/ ~work'[u].filled
              \/ work'[u].filled = work[u].filled /\ (pc[u] \in Concluding => pc'[u] \in Concluding)
  <2>1. PICK k \in Leg : k = Primary(job[u])
    BY <1>2, CurLeg DEF Primary, Leg
  <2>2. at[u] = "exit" => venue'[k].qty > 0
    BY <1>2, <2>1, VenueForward DEF EntryTraded
  <2>3. Primary(job[u])' = k
    BY <1>2, <2>1 DEF Primary
  <2>4. at'[u] = "primary" /\ pc'[u] \notin {"idle"} \union Concluding => ~work'[u].filled
    BY <1>2 DEF EntryTraded
  <2> QED BY <1>2, <2>2, <2>3, <2>4 DEF EntryTraded
<1> QED BY <1>1, <1>2

(* The next leg: the exit only when the entry has traded.                  *)
LEMMA NextLegTold ==
  ASSUME ExecutionTypeInv, AttemptInv, FillsInv, DeadInv, [Next]_vars, NEW t \in Task,
         NEW res, NextLeg(t, res), UNCHANGED job, pc[t] \notin {"idle"} \union Concluding,
         res.qty = 0 \/ (pc[t] \in Reporting /\ res = work[t].res)
  PROVE  Reported(t)' /\ EntryTraded(t)'
<1> HandlerTypeOK /\ UnderWay /\ LedgerTypeOK /\ Reported(t) /\ EntryTraded(t)
  BY TypeParts DEF ExecutionTypeInv, DeadInv
<1>1. pc'[t] \in {"create", "aggregate"}
  BY DEF NextLeg, Goto, HandlerTypeOK
<1>2. Reported(t)'
  BY <1>1, ReportedKept DEF Reporting
<1>3. ASSUME at'[t] # "exit" \/ at[t] = "exit" PROVE EntryTraded(t)'
  <2>1. at'[t] = at[t]
    BY <1>3 DEF NextLeg, HandlerTypeOK
  <2>2. CASE at[t] = "exit"
    <3>1. PICK k \in Leg : k = Primary(job[t])
      BY CurLeg DEF Primary, Leg
    <3>2. venue[k].qty > 0
      BY <2>2, <3>1 DEF EntryTraded
    <3>3. venue'[k].qty > 0
      BY <3>2, VenueForward
    <3>4. Primary(job[t])' = k
      BY <3>1 DEF Primary
    <3> QED BY <2>1, <2>2, <3>3, <3>4 DEF EntryTraded
  <2>3. CASE at[t] # "exit"
    <3>1. at[t] = "primary"
      BY <2>3 DEF HandlerTypeOK
    <3>2. ~(job[t] \in Bracketed /\ (work[t].filled \/ res.qty > 0))
      BY <2>1, <3>1 DEF NextLeg, HandlerTypeOK
    <3>3. pc'[t] = "aggregate"
      BY <3>2 DEF NextLeg, Goto, HandlerTypeOK
    <3> QED BY <2>1, <3>1, <3>3 DEF EntryTraded, Concluding
  <2> QED BY <2>2, <2>3
<1>4. ASSUME at'[t] = "exit", at[t] # "exit" PROVE EntryTraded(t)'
  <2>1. at[t] = "primary" /\ (work[t].filled \/ res.qty > 0)
    BY <1>4 DEF NextLeg, HandlerTypeOK
  <2>2. ~work[t].filled
    BY <2>1 DEF EntryTraded
  <2>3. pc[t] \in Reporting /\ work[t].res.qty > 0
    BY <2>1, <2>2, SMTT(60)
  <2>4. PICK k \in Leg : k = Cur(t)
    BY CurLeg
  <2>5. venue'[k].qty > 0
    BY <2>3, <2>4, VenueForward DEF Reported
  <2>6. Primary(job[t])' = k
    BY <2>1, <2>4 DEF Primary, Cur
  <2> QED BY <1>4, <2>5, <2>6 DEF EntryTraded
<1> QED BY <1>2, <1>3, <1>4

(* A replayed attempt is reported as the ledger has it.                    *)
LEMMA ReplayTold ==
  ASSUME ExecutionTypeInv, AttemptInv, FillsInv, DeadInv, NEW k \in Leg, NEW same \in BOOLEAN,
         CreateOutcome(k, same) = "reused"
  PROVE  /\ DurableResult(k).qty > 0 => venue[k].qty > 0
         /\ Honest /\ DurableResult(k).status \in TerminalStatus => Gone(k)
<1> LedgerTypeOK /\ LegDead(k) /\ Attempt(k) /\ LegFills(k)
  BY TypeParts DEF ExecutionTypeInv, DeadInv, AttemptInv, FillsInv
<1>0. /\ canonical[k] \in Canonical /\ canonical[k].fills \in Nat /\ venue[k].qty \in Nat
      /\ submissions[k] \in Nat
  BY SMTT(60) DEF LedgerTypeOK, Canonical, VenueOrder
<1>1. DurableResult(k).qty = canonical[k].fills
  BY DEF DurableResult
<1>2. DurableResult(k).qty > 0 => venue[k].qty > 0
  BY <1>0, <1>1, SMTT(60) DEF LegFills
<1>3. ASSUME Honest, DurableResult(k).status \in TerminalStatus PROVE Gone(k)
  <2>1. canonical[k].state # "none"
    BY DEF CreateOutcome
  <2>2. DurableStatusOf[canonical[k].state] \in TerminalStatus
    BY <1>3 DEF DurableResult
  <2>3. canonical[k].state \in TerminalState
    BY <1>0, <2>1, <2>2, SMTT(60)
       DEF DurableStatusOf, TerminalStatus, TerminalState, Canonical, OrderState
  <2>4. submissions[k] # 0
    <3>1. canonical[k].state \notin {"none", "new"}
      BY <2>3 DEF TerminalState
    <3>2. ~(/\ canonical[k].state = "rejected" /\ canonical[k].abort
            /\ canonical[k].ref = "none" /\ canonical[k].fills = 0)
      BY ZenonT(60) DEF CreateOutcome
    <3> QED BY <3>1, <3>2, ZenonT(60) DEF Attempt
  <2>5. ~canonical[k].abort
    BY <1>0, <2>4, SMTT(60) DEF Attempt
  <2> QED BY <1>3, <2>3, <2>5 DEF LegDead
<1> QED BY <1>2, <1>3

LEMMA ToldStep ==
  ASSUME ExecutionTypeInv, AttemptInv, FillsInv, DeadInv, NEW t \in Task, HandlerStep(t)
  PROVE  Reported(t)' /\ EntryTraded(t)'
<1> HandlerTypeOK /\ UnderWay /\ LedgerTypeOK /\ [Next]_vars
  BY TypeParts DEF ExecutionTypeInv, Next
<1> work[t] \in Local
  BY DEF HandlerTypeOK
<1> DEFINE Goal == Reported(t)' /\ EntryTraded(t)'
           Keeps(s) == /\ work'[t].res = work[t].res /\ work'[t].filled = work[t].filled
                       /\ UNCHANGED <<job, at>> /\ pc'[t] = s
<1> SUFFICES Goal
  OBVIOUS
<1>1. ASSUME NEW s \in Step, Keeps(s), pc[t] # "idle", pc[t] \in Concluding => s \in Concluding,
             s \in Reporting => pc[t] \in Reporting
      PROVE  Goal
  <2>1. Cur(t)' = Cur(t)
    BY <1>1 DEF Cur
  <2>2. Reported(t)'
    BY <1>1, <2>1, ReportedKept, ZenonT(60)
  <2>3. EntryTraded(t)'
    BY <1>1, EntryKept, ZenonT(60)
  <2> QED BY <2>2, <2>3
<1>2. ASSUME NEW res, NextLeg(t, res), UNCHANGED job, pc[t] \notin {"idle"} \union Concluding,
             res.qty = 0 \/ (pc[t] \in Reporting /\ res = work[t].res)
      PROVE  Goal
  BY <1>2, NextLegTold, ZenonT(60)
<1>3. ASSUME Raise(t), UNCHANGED job, pc[t] # "idle" PROVE Goal
  <2>1. ~work'[t].filled /\ pc'[t] = "finalize" /\ at'[t] = at[t]
    BY <1>3 DEF Raise, Goto, NoWork, HandlerTypeOK
  <2> QED BY <1>3, <2>1, ReportedKept, EntryKept DEF Reporting
<1>4. ASSUME NEW a, Answer(t, a) PROVE Goal
  <2>1. pc'[t] = "idle"
    BY <1>4 DEF Answer, Goto, HandlerTypeOK
  <2> QED BY <2>1, ReportedKept, EntryKept DEF Reporting
<1>5. RejectedResult.qty = 0 /\ UnknownResult.qty = 0
  BY DEF RejectedResult, UnknownResult
<1>6. ASSUME KeepForRecovery(t), UNCHANGED job, pc[t] \in Reporting PROVE Goal
  <2>1. pc[t] \notin {"idle"} \union Concluding
    BY <1>6 DEF Reporting, Concluding
  <2> QED BY <1>2, <1>6, <2>1, ZenonT(60) DEF KeepForRecovery
<1> HIDE DEF Goal
<1>7. CASE EnterBusy(t) \/ LeaveUnlock(t)
  BY <1>4, <1>7, ZenonT(60) DEF EnterBusy, LeaveUnlock
<1>8. CASE EnterLock(t) \/ LeaveRow(t)
  <2>1. Keeps(pc[t]) /\ pc[t] \in {"enter", "leave"}
    BY <1>8, ZenonT(60) DEF EnterLock, LeaveRow, handlerVars
  <2> QED BY <1>1, <2>1 DEF Step, Reporting, Concluding
<1>9. CASE EnterClaim(t) \/ EnterFails(t) \/ Claim(t)
  <2>1. /\ Keeps("claim") \/ Keeps("leave") \/ Keeps("gate")
        /\ pc[t] \in {"enter", "claim"}
    BY <1>9, SMTT(60) DEF EnterClaim, EnterFails, Claim, Goto, unmoved, HandlerTypeOK, Local
  <2> QED BY <1>1, <2>1 DEF Step, Reporting, Concluding
<1>10. CASE Gate(t)
  <2>1. (Keeps("finalize") \/ Keeps("cancel") \/ Keeps("create")) /\ pc[t] = "gate"
    BY <1>10, SMTT(60) DEF Gate, Goto, unmoved, HandlerTypeOK, Local
  <2> QED BY <1>1, <2>1 DEF Step, Reporting, Concluding
<1>11. CASE CancelOne(t)
  <2>1. Keeps("cancel") /\ pc[t] = "cancel"
    BY <1>11, SMTT(60) DEF CancelOne, unmoved, HandlerTypeOK, Local
  <2> QED BY <1>1, <2>1 DEF Step, Reporting, Concluding
<1>12. CASE CancelDone(t) \/ Persist(t) \/ Submit(t)
  <2>1. /\ Keeps("create") \/ Keeps("submit") \/ Keeps("abort") \/ Keeps("reply")
        /\ pc[t] \in {"cancel", "persist", "submit"}
    BY <1>12, ZenonT(60) DEF CancelDone, Persist, Submit, Goto, unmoved, HandlerTypeOK
  <2> QED BY <1>1, <2>1 DEF Step, Reporting, Concluding
<1>13. CASE Finalize(t)
  <2>1. Keeps("leave") /\ pc[t] = "finalize"
    BY <1>13, ZenonT(60) DEF Finalize, Goto, HandlerTypeOK
  <2> QED BY <1>1, <2>1 DEF Step, Reporting, Concluding
<1>14. ASSUME NEW same \in BOOLEAN, Create(t, same) PROVE Goal
  <2>0. pc[t] = "create" /\ UNCHANGED <<job, venue, submissions>>
    BY <1>14 DEF Create, unmoved
  <2>1. PICK k \in Leg : k = Cur(t)
    BY <2>0, CurLeg
  <2>2. CASE Goto(t, "persist") /\ UNCHANGED <<at, work>>
    <3>1. Keeps("persist")
      BY <2>0, <2>2 DEF Goto, HandlerTypeOK
    <3> QED BY <1>1, <2>0, <3>1 DEF Step, Reporting, Concluding
  <2>3. CASE /\ work' = [work EXCEPT ![t].res = DurableResult(k), ![t].fills = canonical[k].fills,
                                     ![t].replay = TRUE]
             /\ CreateOutcome(k, same) = "reused"
             /\ Goto(t, "resolve") /\ UNCHANGED at
    <3>1. work'[t].res = DurableResult(k) /\ work'[t].filled = work[t].filled
      BY <2>3 DEF HandlerTypeOK, Local
    <3>2. pc'[t] = "resolve" /\ Cur(t)' = k
      BY <2>0, <2>1, <2>3 DEF Goto, HandlerTypeOK, Cur
    <3>3. Gone(k) => Gone(Cur(t))'
      BY <2>0, <3>2 DEF Gone
    <3>4. Reported(t)'
      BY <2>0, <2>3, <3>1, <3>2, <3>3, ReplayTold DEF Reported
    <3>5. EntryTraded(t)'
      BY <2>0, <2>3, <3>1, EntryKept DEF Concluding
    <3> QED BY <3>4, <3>5 DEF Goal
  <2>4. CASE NextLeg(t, UnknownResult) \/ NextLeg(t, RejectedResult)
    BY <1>2, <1>5, <2>0, <2>4 DEF Concluding
  <2> QED BY <1>14, <2>1, <2>2, <2>3, <2>4 DEF Create
<1>15. CASE CreateFails(t)
  BY <1>2, <1>5, <1>15 DEF CreateFails, Concluding, unmoved
<1>16. CASE Abort(t)
  <2>1. NextLeg(t, RejectedResult) \/ Raise(t)
    BY <1>16 DEF Abort
  <2>2. UNCHANGED job /\ pc[t] \notin {"idle"} \union Concluding
    BY <1>16 DEF Abort, Concluding, unmoved
  <2> QED BY <1>2, <1>3, <1>5, <2>1, <2>2
<1>17. CASE Reply(t)
  <2>0. pc[t] = "reply" /\ UNCHANGED <<job, at, venue, submissions>>
    BY <1>17 DEF Reply, unmoved, ledgerVars
  <2>1. PICK k \in Leg : k = Cur(t)
    BY <2>0, CurLeg
  <2>2. CASE Goto(t, "unknown") /\ UNCHANGED work
    <3>1. Keeps("unknown")
      BY <2>0, <2>2 DEF Goto, HandlerTypeOK
    <3> QED BY <1>1, <2>0, <3>1 DEF Step, Reporting, Concluding
  <2>3. ASSUME NEW res, res.qty > 0 => venue[k].qty > 0,
               Honest /\ res.status \in TerminalStatus => Gone(k),
               work' = [work EXCEPT ![t].res = res], Goto(t, "fills")
        PROVE  Goal
    <3>1. work'[t].res = res /\ work'[t].filled = work[t].filled /\ pc'[t] = "fills"
      BY <2>3 DEF Goto, HandlerTypeOK, Local
    <3>2. Cur(t)' = k
      BY <2>0, <2>1 DEF Cur
    <3>3. Gone(k) => Gone(Cur(t))'
      BY <2>0, <3>2 DEF Gone
    <3>4. Reported(t)'
      BY <2>0, <2>3, <3>1, <3>2, <3>3 DEF Reported
    <3>5. EntryTraded(t)'
      BY <2>0, <3>1, EntryKept DEF Concluding
    <3> QED BY <3>4, <3>5 DEF Goal
  <2>4. /\ VenueResult(k).qty > 0 => venue[k].qty > 0
        /\ VenueResult(k).status \in TerminalStatus => Gone(k)
    <3>1. Placed(t)
      BY DEF AttemptInv
    <3>2. submissions[k] > 0
      BY <2>0, <2>1, <3>1 DEF Placed
    <3>3. VenueResult(k).qty = venue[k].qty
      BY DEF VenueResult
    <3>4. VenueResult(k).status \in TerminalStatus => venue[k].state # "open"
      BY DEF VenueResult, TerminalStatus
    <3> QED BY <3>2, <3>3, <3>4 DEF Gone
  <2> DEFINE p == [RejectedResult EXCEPT !.status = "PENDING"]
  <2>5. p.qty = 0 /\ p.status \notin TerminalStatus
    BY DEF RejectedResult, TerminalStatus
  <2>6. "rejected" \in LostReply => ~Honest
    BY DEF Honest
  <2>7. \/ Goto(t, "unknown") /\ UNCHANGED work
        \/ /\ Goto(t, "fills")
           /\ \/ work' = [work EXCEPT ![t].res = VenueResult(k)]
              \/ work' = [work EXCEPT ![t].res = p]
              \/ "rejected" \in LostReply /\ work' = [work EXCEPT ![t].res = RejectedResult]
    BY <1>17, <2>1, ZenonT(60) DEF Reply
  <2> HIDE DEF p
  <2>8. ~(0 > 0)
    BY SMTT(60)
  <2> QED BY <1>5, <2>2, <2>3, <2>4, <2>5, <2>6, <2>7, <2>8, ZenonT(60)
<1>18. CASE MarkUnknown(t)
  <2>1. Keeps("unknown_row") \/ Raise(t)
    BY <1>18 DEF MarkUnknown, Goto, unmoved, HandlerTypeOK
  <2>2. UNCHANGED job /\ pc[t] = "unknown"
    BY <1>18 DEF MarkUnknown, unmoved
  <2> QED BY <1>1, <1>3, <2>1, <2>2 DEF Step, Reporting, Concluding
<1>19. CASE MarkUnknownRow(t)
  <2>1. NextLeg(t, UnknownResult) \/ Raise(t)
    BY <1>19 DEF MarkUnknownRow
  <2>2. UNCHANGED job /\ pc[t] \notin {"idle"} \union Concluding
    BY <1>19 DEF MarkUnknownRow, Concluding, unmoved
  <2> QED BY <1>2, <1>3, <1>5, <2>1, <2>2
<1>20. CASE FetchFills(t)
  <2>1. Keeps("resolve") \/ KeepForRecovery(t)
    BY <1>20, SMTT(60) DEF FetchFills, Goto, unmoved, HandlerTypeOK, Local
  <2>2. UNCHANGED job /\ pc[t] = "fills"
    BY <1>20 DEF FetchFills, unmoved
  <2> QED BY <1>1, <1>6, <2>1, <2>2 DEF Step, Reporting, Concluding
<1>21. CASE ResolveCanonical(t)
  <2>1. Keeps("resolve_row") \/ KeepForRecovery(t)
    BY <1>21 DEF ResolveCanonical, Goto, unmoved, HandlerTypeOK
  <2>2. UNCHANGED job /\ pc[t] = "resolve"
    BY <1>21 DEF ResolveCanonical, unmoved
  <2> QED BY <1>1, <1>6, <2>1, <2>2 DEF Step, Reporting, Concluding
<1>22. CASE ResolvePending(t)
  <2>1. NextLeg(t, work[t].res)
    BY <1>22 DEF ResolvePending, KeepForRecovery
  <2>2. UNCHANGED job /\ pc[t] = "resolve_row"
    BY <1>22 DEF ResolvePending, unmoved
  <2> QED BY <1>2, <2>1, <2>2 DEF Reporting, Concluding
<1>23. CASE Aggregate(t)
  <2>1. Keeps("finalize") \/ Raise(t)
    BY <1>23, SMTT(60) DEF Aggregate, Goto, unmoved, HandlerTypeOK, Local
  <2>2. UNCHANGED job /\ pc[t] = "aggregate"
    BY <1>23 DEF Aggregate, unmoved
  <2> QED BY <1>1, <1>3, <2>1, <2>2 DEF Step, Reporting, Concluding
<1> HIDE DEF Keeps
<1> QED BY <1>7, <1>8, <1>9, <1>10, <1>11, <1>12, <1>13, <1>14, <1>15, <1>16, <1>17, <1>18,
           <1>19, <1>20, <1>21, <1>22, <1>23, ZenonT(60) DEF HandlerStep

(* An exit is submitted by a handler whose entry has traded.               *)
LEMMA ExitNext ==
  ASSUME ExecutionTypeInv, AttemptInv, FillsInv, DeadInv, [Next]_vars
  PROVE  ExitAfterFill'
<1> HandlerTypeOK /\ UnderWay /\ LedgerTypeOK
  BY TypeParts DEF ExecutionTypeInv
<1> SUFFICES ASSUME NEW c \in Bracketed, submissions'[Exit(c)] > 0
             PROVE  venue'[Primary(c)].qty > 0
  BY DEF ExitAfterFill
<1>1. PICK k \in Leg : k = Primary(c)
  BY DEF Primary, Leg
<1>2. PICK e \in Leg : e = Exit(c)
  BY DEF Exit, Leg
<1>3. venue[k].qty > 0
  <2>1. CASE submissions[e] > 0
    BY <1>1, <1>2, <2>1 DEF DeadInv, ExitAfterFill
  <2>2. CASE ~(submissions[e] > 0)
    <3>1. PICK t \in Task : Submit(t)
      BY <1>2, <2>2, RowsStay
    <3>2. PICK l \in Leg : l = Cur(t)
      BY <3>1, CurLeg DEF Submit
    <3>3. submissions' = [submissions EXCEPT ![l] = @ + 1]
      BY <3>1, <3>2 DEF Submit
    <3>4. l = e
      BY <1>2, <2>2, <3>3 DEF LedgerTypeOK
    <3>5. job[t] = c /\ at[t] = "exit"
      BY <1>2, <3>2, <3>4, SMTT(60) DEF Cur, Exit
    <3>6. EntryTraded(t) /\ pc[t] # "idle"
      BY <3>1 DEF DeadInv, Submit
    <3> QED BY <1>1, <3>5, <3>6 DEF EntryTraded
  <2> QED BY <2>1, <2>2
<1> QED BY <1>1, <1>3, VenueForward

LEMMA DeadNext ==
  ASSUME ExecutionTypeInv, AttemptInv, FillsInv, DeadInv, [Next]_vars
  PROVE  DeadInv'
<1> HandlerTypeOK
  BY TypeParts DEF ExecutionTypeInv
<1>1. ASSUME NEW l \in Leg PROVE LegDead(l)'
  BY CanonicalDead, RowDead DEF LegDead, Honest
<1>2. ASSUME NEW t \in Task, HandlerStep(t), NEW u \in Task PROVE Reported(u)' /\ EntryTraded(u)'
  <2>1. CASE u = t
    BY <1>2, <2>1, ToldStep
  <2>2. CASE u # t
    <3>1. pc'[u] = pc[u] /\ job'[u] = job[u] /\ at'[u] = at[u] /\ work'[u] = work[u]
      BY <1>2, <2>2, OthersStay, ZenonT(60)
    <3>2. Cur(u)' = Cur(u)
      BY <3>1 DEF Cur
    <3> QED BY <3>1, <3>2, ReportedKept, EntryKept, ZenonT(60)
  <2> QED BY <2>1, <2>2
<1>3. ASSUME NEW u \in Task,
             \/ pc'[u] = "idle"
             \/ pc'[u] = "enter" /\ at'[u] = "primary" /\ ~work'[u].filled
             \/ pc'[u] = pc[u] /\ job'[u] = job[u] /\ at'[u] = at[u] /\ work'[u] = work[u]
      PROVE  Reported(u)' /\ EntryTraded(u)'
  <2>1. CASE pc'[u] = "idle" \/ (pc'[u] = "enter" /\ at'[u] = "primary" /\ ~work'[u].filled)
    BY <2>1, ReportedKept, EntryKept DEF Reporting
  <2>2. CASE /\ pc'[u] = pc[u] /\ job'[u] = job[u] /\ at'[u] = at[u] /\ work'[u] = work[u]
             /\ pc'[u] # "idle"
    <3>1. Cur(u)' = Cur(u)
      BY <2>2 DEF Cur
    <3> QED BY <2>2, <3>1, ReportedKept, EntryKept, ZenonT(60)
  <2> QED BY <1>3, <2>1, <2>2
<1>4. ASSUME NEW t \in Task, NEW c \in Command, Deliver(t, c), NEW u \in Task
      PROVE  Reported(u)' /\ EntryTraded(u)'
  <2>1. \/ pc'[u] = "enter" /\ at'[u] = "primary" /\ ~work'[u].filled
        \/ pc'[u] = pc[u] /\ job'[u] = job[u] /\ at'[u] = at[u] /\ work'[u] = work[u]
    BY <1>4 DEF Deliver, Goto, HandlerTypeOK, NoWork
  <2> QED BY <1>3, <2>1
<1>5. ASSUME NEW r \in Replica, Crash(r), NEW u \in Task PROVE Reported(u)' /\ EntryTraded(u)'
  <2>1. \/ pc'[u] = "idle"
        \/ pc'[u] = pc[u] /\ job'[u] = job[u] /\ at'[u] = at[u] /\ work'[u] = work[u]
    BY <1>5, ZenonT(60) DEF Crash
  <2> QED BY <1>3, <2>1
<1>6. ASSUME Environment \/ UNCHANGED vars, NEW u \in Task
      PROVE  Reported(u)' /\ EntryTraded(u)'
  <2>1. UNCHANGED handlerVars
    BY <1>6 DEF Environment, vars
  <2> QED BY <1>3, <2>1 DEF handlerVars
<1>7. ASSUME NEW u \in Task PROVE Reported(u)' /\ EntryTraded(u)'
  BY <1>2, <1>4, <1>5, <1>6, <1>7 DEF Next
<1> QED BY <1>1, <1>7, ExitNext DEF DeadInv

LEMMA DeadInit == Init => DeadInv
<1> SUFFICES ASSUME Init PROVE DeadInv
  OBVIOUS
<1>1. ASSUME NEW l \in Leg PROVE LegDead(l)
  BY DEF Init, LedgerInit, LegDead, TerminalState
<1>2. ASSUME NEW t \in Task PROVE Reported(t) /\ EntryTraded(t)
  BY DEF Init, Reported, EntryTraded, Reporting
<1>3. ASSUME NEW c \in Bracketed PROVE ~(submissions[Exit(c)] > 0)
  <2>1. Exit(c) \in Leg
    BY DEF Exit, Leg
  <2> QED BY <2>1, SMTT(60) DEF Init, LedgerInit
<1> QED BY <1>1, <1>2, <1>3 DEF DeadInv, ExitAfterFill

LEMMA DeadAlways ==
  Spec => [](ExecutionTypeInv /\ AttemptInv /\ FillsInv /\ OneSubmission /\ DeadInv)
<1>1. Init => OneSubmission
  BY SMTT(60) DEF Init, LedgerInit, OneSubmission, AboutToSubmit
<1>2. ExecutionTypeInv /\ AttemptInv /\ FillsInv /\ OneSubmission /\ DeadInv /\ [Next]_vars
        => ExecutionTypeInv' /\ AttemptInv' /\ FillsInv' /\ OneSubmission' /\ DeadInv'
  BY ExecutionTypeNext, AttemptNext, FillsNext, OneSubmissionNext, DeadNext
<1> QED BY <1>1, <1>2, ExecutionTypeInit, AttemptInit, FillsInit, DeadInit, PTL DEF Spec

LEMMA DeadRows ==
  ASSUME Honest, ExecutionTypeInv, AttemptInv, OneSubmission, DeadInv
  PROVE  ClosedRowIsDead
<1> SUFFICES ASSUME NEW l \in Leg, pending[l].status \notin Recoverable
             PROVE  venue[l].state # "open"
  BY DEF ClosedRowIsDead
<1>1. Attempt(l) /\ LegDead(l) /\ submissions[l] \in Nat
  BY TypeParts DEF AttemptInv, DeadInv, ExecutionTypeInv, LedgerTypeOK
<1>2. CASE pending[l].status = "absent"
  <2>1. submissions[l] = 0
    BY <1>1, <1>2, SMTT(60) DEF OneSubmission
  <2> QED BY <1>1, <2>1 DEF Attempt
<1>3. CASE pending[l].status # "absent"
  BY <1>1, <1>3 DEF LegDead, Gone
<1> QED BY <1>2, <1>3

(* No row is filled, cancelled, rejected or expired while the venue still  *)
(* works the order, whatever crashes, overlaps or late results there were, *)
(* provided adapters do not report a lost reply as a rejection: they raise *)
(* or report a pending order, and the row stays open.                      *)
THEOREM ClosedRowsAreDead == "rejected" \notin LostReply => (Spec => []ClosedRowIsDead)
<1> SUFFICES ASSUME Honest PROVE Spec => []ClosedRowIsDead
  BY DEF Honest
<1>1. ExecutionTypeInv /\ AttemptInv /\ OneSubmission /\ DeadInv => ClosedRowIsDead
  BY DeadRows
<1> QED BY <1>1, DeadAlways, PTL

(* Protective exits are sent only after the entry has really traded,       *)
(* however the entry's fill was learnt: from the venue's answer, or from   *)
(* the ledger by a later delivery that replays it.                         *)
THEOREM ExitsAfterFill == Spec => []ExitAfterFill
<1>1. DeadInv => ExitAfterFill
  BY DEF DeadInv
<1> QED BY <1>1, DeadAlways, PTL

-----------------------------------------------------------------------------
(* While no lock session is dropped, at most one writer is inside the      *)
(* account's section: who is inside has the advisory lock.                 *)

Body == Step \ {"idle", "enter"}

LockHolds == losses = 0 => \A t \in Task : phase[t] # "idle" => advisory = t

InSection == \A t \in Task : pc[t] \in Body => phase[t] # "idle"

LEMMA LockHoldsNext ==
  ASSUME SerializerTypeOK, LockHolds, [SerializerNext]_serializerVars
  PROVE  LockHolds' /\ (losses' = 0 => losses = 0)
<1> USE DEF SerializerTypeOK
<1>0. losses' = 0 => losses = 0
  <2>1. losses' = losses \/ losses' = losses + 1
    BY DEF SerializerNext, HoldStep, TryLock, ClaimGeneration, ClaimFails, Leave,
       ReleaseGeneration, Unlock, LoseSession, CrashReplica, serializerVars
  <2> QED BY <2>1, SMTT(60)
<1> SUFFICES ASSUME losses' = 0, losses = 0, NEW u \in Task, phase'[u] # "idle"
             PROVE  advisory' = u
  BY <1>0 DEF LockHolds
<1>1. ASSUME NEW t \in Task, TryLock(t) PROVE advisory' = u
  <2>1. advisory = NoTask /\ advisory' = t /\ phase' = [phase EXCEPT ![t] = "locked"]
    BY <1>1 DEF TryLock, CanLock
  <2>2. phase[u] = "idle"
    BY <2>1 DEF LockHolds
  <2> QED BY <2>1, <2>2
<1>2. ASSUME NEW t \in Task, ClaimGeneration(t) \/ ClaimFails(t) \/ Leave(t)
      PROVE  advisory' = u
  <2>1. advisory' = advisory /\ phase[t] # "idle" /\ \E s : phase' = [phase EXCEPT ![t] = s]
    BY <1>2 DEF ClaimGeneration, ClaimFails, Leave, ReleaseGeneration
  <2> QED BY <2>1 DEF LockHolds
<1>3. ASSUME NEW t \in Task, Unlock(t) PROVE advisory' = u
  <2>1. phase[t] # "idle" /\ phase' = [phase EXCEPT ![t] = "idle"]
    BY <1>3 DEF Unlock
  <2>2. advisory = t /\ advisory = u
    BY <2>1 DEF LockHolds
  <2> QED BY <2>1, <2>2
<1>4. ASSUME NEW t \in Task, LoseSession(t) PROVE FALSE
  BY <1>4, SMTT(60) DEF LoseSession
<1>5. ASSUME NEW r \in Replica, CrashReplica(r) PROVE advisory' = u
  <2>1. u \notin Residents(r) /\ phase[u] # "idle"
    BY <1>5 DEF CrashReplica
  <2> QED BY <1>5, <2>1 DEF CrashReplica, LockHolds
<1>6. ASSUME UNCHANGED serializerVars PROVE advisory' = u
  BY <1>6 DEF serializerVars, LockHolds
<1> QED BY <1>1, <1>2, <1>3, <1>4, <1>5, <1>6 DEF SerializerNext, HoldStep

(* A handler enters its body with the lock and leaves it before it unlocks. *)
LEMMA HandlerPhase ==
  ASSUME SerializerTypeOK, HandlerTypeOK, NEW t \in Task, HandlerStep(t),
         pc[t] \in Body => phase[t] # "idle"
  PROVE  /\ pc'[t] \in Body => phase'[t] # "idle"
         /\ \A u \in Task \ {t} : phase'[u] = phase[u]
         /\ pc[t] # "idle"
<1> USE DEF SerializerTypeOK, HandlerTypeOK, Body, Goto
<1>1. CASE EnterBusy(t)
  BY <1>1 DEF EnterBusy, Answer, serializerVars
<1>2. CASE EnterLock(t)
  BY <1>2 DEF EnterLock, TryLock, handlerVars
<1>3. CASE EnterClaim(t) \/ EnterFails(t)
  BY <1>3, SMTT(60) DEF EnterClaim, EnterFails, ClaimGeneration, ClaimFails
<1>4. CASE LeaveRow(t)
  BY <1>4 DEF LeaveRow, Leave, ReleaseGeneration, handlerVars
<1>5. CASE LeaveUnlock(t)
  BY <1>5 DEF LeaveUnlock, Unlock, Answer
<1>6. CASE ~(EnterBusy(t) \/ EnterLock(t) \/ EnterClaim(t) \/ EnterFails(t) \/ LeaveRow(t)
             \/ LeaveUnlock(t))
  <2>1. pc[t] # "idle" /\ pc[t] # "enter"
    BY <1>6, ZenonT(60) DEF HandlerStep, Claim, Gate, CancelOne, CancelDone, Create, CreateFails,
       Persist, Abort, Submit, Reply, MarkUnknown, MarkUnknownRow, FetchFills, ResolveCanonical,
       ResolvePending, Aggregate, Finalize
  <2>2. UNCHANGED serializerVars
    BY <1>6, ZenonT(60) DEF HandlerStep, Claim, Gate, CancelOne, CancelDone, Create, CreateFails,
       Persist, Abort, Submit, Reply, MarkUnknown, MarkUnknownRow, FetchFills, ResolveCanonical,
       ResolvePending, Aggregate, Finalize
  <2>3. phase[t] # "idle" /\ phase' = phase
    BY <2>1, <2>2 DEF serializerVars
  <2> QED BY <2>1, <2>3
<1> QED BY <1>1, <1>2, <1>3, <1>4, <1>5, <1>6

LEMMA InSectionNext ==
  ASSUME ExecutionTypeInv, InSection, [Next]_vars PROVE InSection'
<1> SerializerTypeOK /\ HandlerTypeOK
  BY TypeParts DEF ExecutionTypeInv
<1> USE DEF InSection
<1>1. ASSUME NEW t \in Task, HandlerStep(t) PROVE InSection'
  <2>1. \A u \in Task \ {t} : pc'[u] = pc[u]
    BY <1>1, OthersStay
  <2>2. /\ pc'[t] \in Body => phase'[t] # "idle"
        /\ \A u \in Task \ {t} : phase'[u] = phase[u]
    BY <1>1, HandlerPhase
  <2> QED BY <2>1, <2>2
<1>2. ASSUME NEW t \in Task, NEW c \in Command, Deliver(t, c) PROVE InSection'
  <2>1. UNCHANGED phase /\ pc' = [pc EXCEPT ![t] = "enter"]
    BY <1>2 DEF Deliver, Goto, serializerVars
  <2> QED BY <2>1 DEF HandlerTypeOK, Body
<1>3. ASSUME Environment PROVE InSection'
  <2>1. UNCHANGED <<phase, pc>>
    BY <1>3 DEF Environment, LoseSession, handlerVars, serializerVars
  <2> QED BY <2>1
<1>4. ASSUME NEW r \in Replica, Crash(r) PROVE InSection'
  <2>1. /\ phase' = [u \in Task |-> IF u \in Residents(r) THEN "idle" ELSE phase[u]]
        /\ pc' = [u \in Task |-> IF u \in Residents(r) THEN "idle" ELSE pc[u]]
    BY <1>4 DEF Crash, CrashReplica
  <2> QED BY <2>1 DEF Body
<1>5. ASSUME UNCHANGED vars PROVE InSection'
  BY <1>5 DEF vars, handlerVars, serializerVars
<1> QED BY <1>1, <1>2, <1>3, <1>4, <1>5 DEF Next

LEMMA Sole ==
  ASSUME LockHolds, InSection, losses = 0, NEW t \in Task, NEW u \in Task,
         pc[t] \in Body, pc[u] \in Body
  PROVE  t = u
  BY DEF LockHolds, InSection

-----------------------------------------------------------------------------
(* The row of an order that was sent.  Between its commits a handler or    *)
(* the worker carries a result; as nobody else is inside, the row, the     *)
(* canonical order and what was carried are of one attempt.  An order      *)
(* whose submission is in doubt keeps the marker of it, no handler takes   *)
(* it up again, and the worker closes it only when the venue has finished. *)

Closed(l) == pending[l].status \notin Recoverable \union {"absent"}

Known(l) == venue[l].state \notin {"none", "refused"}

RowKept(l) ==
  /\ submissions[l] > 0 => pending[l].status # "absent"
  /\ Closed(l) => submissions[l] > 0 /\ canonical[l].state \in TerminalState
  /\ pending[l].status = "submission_unknown" => canonical[l].unknown /\ pending[l].ref = "none"
  /\ \A r \in Replica : tracked[r][l] = "unknown" => canonical[l].unknown
  /\ canonical[l].state = "none" => ~canonical[l].unknown
  /\ canonical[l].unknown /\ Closed(l) => venue[l].state # "open"
  /\ pending[l].ref = "venue" \/ canonical[l].ref = "venue" => Known(l)

NewRow == [status |-> "pending", ref |-> "none"]

InDoubt == {"submit", "reply", "unknown", "unknown_row"}
Certain == {"persist", "abort", "submit", "reply", "unknown"} \union Reporting

InPlace(t) ==
  /\ pc[t] \in InDoubt => pending[Cur(t)] = NewRow
  /\ pc[t] \in Certain => ~canonical[Cur(t)].unknown
  /\ pc[t] = "unknown_row" => canonical[Cur(t)].unknown
  /\ pc[t] \in Reporting => /\ Closed(Cur(t)) => work[t].res.status \in TerminalStatus
                            /\ work[t].res.ref = "venue" => Known(Cur(t))
  /\ pc[t] = "resolve_row" /\ work[t].res.status \in TerminalStatus
       => canonical[Cur(t)].state \in TerminalState

(* A handler that carries nothing.                                         *)
LEMMA Outside ==
  ASSUME NEW t \in Task, pc'[t] \notin InDoubt \union Certain PROVE InPlace(t)'
  BY DEF InPlace, InDoubt, Certain, Reporting

LEMMA AwayOutside ==
  /\ InDoubt \union Certain \subseteq Body
  /\ \A s \in Away : s \notin InDoubt \union Certain
  BY DEF Body, InDoubt, Certain, Reporting, Away, Step, Hands, Sent, Resolving

(* A leg nobody writes.                                                    *)
LEMMA RowFrame ==
  ASSUME NEW l \in Leg, RowKept(l), canonical'[l] = canonical[l], pending'[l] = pending[l],
         submissions'[l] = submissions[l],
         venue[l].state # "open" => venue'[l].state # "open", Known(l) => Known(l)',
         \A r \in Replica : tracked'[r][l] = "unknown" => tracked[r][l] = "unknown"
  PROVE  RowKept(l)'
  BY DEF RowKept, Closed

(* A write of the canonical order alone.                                   *)
LEMMA CanonicalKeepsRow ==
  ASSUME NEW l \in Leg, RowKept(l), UNCHANGED <<pending, submissions, venue>>,
         Closed(l) => canonical'[l].state \in TerminalState,
         canonical[l].unknown => canonical'[l].unknown,
         canonical'[l].state = "none" => ~canonical'[l].unknown,
         canonical'[l].unknown => canonical[l].unknown \/ ~Closed(l),
         canonical'[l].ref = "venue" => Known(l),
         \A r \in Replica : tracked'[r][l] = "unknown" => tracked[r][l] = "unknown"
  PROVE  RowKept(l)'
<1>1. Closed(l)' = Closed(l) /\ Known(l)' = Known(l)
  BY DEF Closed, Known
<1> QED BY <1>1 DEF RowKept

(* A write of the row alone.                                               *)
LEMMA RowWriteKeeps ==
  ASSUME NEW l \in Leg, RowKept(l), UNCHANGED <<canonical, submissions, venue>>,
         submissions[l] > 0 => pending'[l].status # "absent",
         Closed(l)' => /\ submissions[l] > 0 /\ canonical[l].state \in TerminalState
                       /\ canonical[l].unknown => venue[l].state # "open",
         pending'[l].status = "submission_unknown" => canonical[l].unknown /\ pending'[l].ref = "none",
         pending'[l].ref = "venue" => Known(l),
         \A r \in Replica :
           tracked'[r][l] = "unknown" => tracked[r][l] = "unknown" \/ canonical[l].unknown
  PROVE  RowKept(l)'
<1>1. Known(l)' = Known(l)
  BY DEF Known
<1> QED BY <1>1 DEF RowKept

(* Only marking a row as unknown puts an unknown order into the cache.     *)
LEMMA CacheKnows ==
  ASSUME LedgerTypeOK, NEW r \in Replica, NEW k \in Leg, NEW ref \in Ref,
         Track(r, k, ref) \/ Untrack(r, k) \/ UNCHANGED tracked
  PROVE  \A q \in Replica, l \in Leg : tracked'[q][l] = "unknown" => tracked[q][l] = "unknown"
<1>1. ASSUME NEW v, v # "unknown", tracked' = [tracked EXCEPT ![r][k] = v],
             NEW q \in Replica, NEW l \in Leg, tracked'[q][l] = "unknown"
      PROVE  tracked[q][l] = "unknown"
  BY <1>1 DEF LedgerTypeOK
<1>2. (IF ref = "none" THEN "local" ELSE ref) # "unknown"
  BY DEF Ref
<1> QED BY <1>1, <1>2 DEF Track, Untrack

LEMMA CanonicalMove ==
  ASSUME NEW k \in Leg, \A l \in Leg : RowKept(l), UNCHANGED <<pending, submissions, venue>>,
         \A l \in Leg \ {k} : canonical'[l] = canonical[l],
         Closed(k) => canonical'[k].state \in TerminalState,
         canonical[k].unknown => canonical'[k].unknown,
         canonical'[k].state = "none" => ~canonical'[k].unknown,
         canonical'[k].unknown => canonical[k].unknown \/ ~Closed(k),
         canonical'[k].ref = "venue" => Known(k),
         \A r \in Replica, l \in Leg : tracked'[r][l] = "unknown" => tracked[r][l] = "unknown"
  PROVE  \A l \in Leg : RowKept(l)'
<1>1. RowKept(k)'
  BY CanonicalKeepsRow
<1>2. ASSUME NEW l \in Leg \ {k} PROVE RowKept(l)'
  <2>1. Known(l)' = Known(l)
    BY DEF Known
  <2> QED BY <2>1, RowFrame
<1> QED BY <1>1, <1>2

LEMMA RowMove ==
  ASSUME NEW k \in Leg, \A l \in Leg : RowKept(l), UNCHANGED <<canonical, submissions, venue>>,
         \A l \in Leg \ {k} : pending'[l] = pending[l],
         submissions[k] > 0 => pending'[k].status # "absent",
         Closed(k)' => /\ submissions[k] > 0 /\ canonical[k].state \in TerminalState
                       /\ canonical[k].unknown => venue[k].state # "open",
         pending'[k].status = "submission_unknown" => canonical[k].unknown /\ pending'[k].ref = "none",
         pending'[k].ref = "venue" => Known(k),
         \A r \in Replica, l \in Leg :
           tracked'[r][l] = "unknown" => tracked[r][l] = "unknown" \/ (l = k /\ canonical[k].unknown)
  PROVE  \A l \in Leg : RowKept(l)'
<1>1. RowKept(k)'
  BY RowWriteKeeps
<1>2. ASSUME NEW l \in Leg \ {k} PROVE RowKept(l)'
  <2>1. Known(l)' = Known(l)
    BY DEF Known
  <2> QED BY <2>1, RowFrame
<1> QED BY <1>1, <1>2

(* No write of the ledger.                                                 *)
LEMMA LedgerStill ==
  ASSUME \A l \in Leg : RowKept(l), UNCHANGED <<canonical, pending, submissions, venue>>,
         \A r \in Replica, l \in Leg : tracked'[r][l] = "unknown" => tracked[r][l] = "unknown"
  PROVE  \A l \in Leg : RowKept(l)'
<1> SUFFICES ASSUME NEW l \in Leg PROVE RowKept(l)'
  OBVIOUS
<1>1. Known(l)' = Known(l)
  BY DEF Known
<1> QED BY <1>1, RowFrame

(* The fresh attempt has no closed row.                                    *)
LEMMA KeptCreated ==
  ASSUME ExecutionTypeInv, AttemptInv, \A l \in Leg : RowKept(l), NEW k \in Leg,
         NEW same \in BOOLEAN, CreateOutcome(k, same) = "fresh", CreateOrder(k),
         UNCHANGED <<pending, submissions, venue, tracked>>
  PROVE  (\A l \in Leg : RowKept(l)') /\ ~canonical'[k].unknown
<1> LedgerTypeOK /\ RowKept(k) /\ Attempt(k)
  BY TypeParts DEF ExecutionTypeInv, AttemptInv
<1>1. /\ \/ canonical[k].state = "none"
         \/ canonical[k].state = "rejected" /\ canonical[k].abort
      /\ ~canonical[k].unknown
  BY DEF CreateOutcome, RowKept
<1>2. submissions[k] \in Nat
  BY DEF LedgerTypeOK
<1>3. submissions[k] = 0
  BY <1>1, <1>2, SMTT(60) DEF Attempt
<1>4. ~Closed(k)
  BY <1>3, SMTT(60) DEF RowKept
<1>5. /\ canonical'[k].state = "new" /\ canonical'[k].unknown = canonical[k].unknown
      /\ canonical'[k].ref = canonical[k].ref
      /\ \A l \in Leg \ {k} : canonical'[l] = canonical[l]
  BY SMTT(60) DEF CreateOrder, LedgerTypeOK, Canonical
<1>6. canonical[k].ref = "venue" => Known(k)
  BY DEF RowKept
<1>7. \A l \in Leg : RowKept(l)'
  BY <1>1, <1>4, <1>5, <1>6, CanonicalMove
<1> QED BY <1>1, <1>5, <1>7

LEMMA KeptCreate ==
  ASSUME ExecutionTypeInv, AttemptInv, \A l \in Leg : RowKept(l), NEW t \in Task,
         (\E same \in BOOLEAN : Create(t, same)) \/ CreateFails(t)
  PROVE  (\A l \in Leg : RowKept(l)') /\ InPlace(t)'
<1> LedgerTypeOK /\ HandlerTypeOK /\ UnderWay
  BY TypeParts DEF ExecutionTypeInv
<1>0. pc[t] # "idle" /\ UNCHANGED <<pending, submissions, venue, tracked, job>>
  <2>1. pc[t] = "create" /\ UNCHANGED <<pending, submissions, venue, tracked, unmoved>>
    BY ZenonT(60) DEF Create, CreateFails
  <2> QED BY <2>1 DEF unmoved
<1>1. PICK k \in Leg : k = Cur(t)
  BY <1>0, CurLeg
<1>2. ASSUME UNCHANGED canonical PROVE \A l \in Leg : RowKept(l)'
  BY <1>0, <1>2, LedgerStill
<1>3. ASSUME pc'[t] \in Away PROVE InPlace(t)'
  BY <1>3, AwayOutside, Outside
<1>4. CASE CreateFails(t)
  <2>1. pc'[t] \in Away
    BY <1>4, WhereNext DEF CreateFails
  <2>2. UNCHANGED canonical \/ (CreateOutcome(k, TRUE) = "fresh" /\ CreateOrder(k))
    BY <1>1, <1>4 DEF CreateFails
  <2> QED BY <1>0, <1>2, <1>3, <2>1, <2>2, KeptCreated
<1>5. ASSUME NEW same \in BOOLEAN, Create(t, same)
      PROVE  (\A l \in Leg : RowKept(l)') /\ InPlace(t)'
  <2>1. CASE CreateOutcome(k, same) = "fresh"
    <3>1. CreateOrder(k) /\ Goto(t, "persist") /\ UNCHANGED at
      BY <1>1, <1>5, <2>1 DEF Create
    <3>2. (\A l \in Leg : RowKept(l)') /\ ~canonical'[k].unknown
      BY <1>0, <2>1, <3>1, KeptCreated
    <3>3. pc'[t] = "persist" /\ Cur(t)' = k
      BY <1>0, <1>1, <3>1, WhereNext DEF Step, Cur
    <3> QED BY <3>2, <3>3 DEF InPlace, InDoubt, Certain, Reporting
  <2>2. CASE CreateOutcome(k, same) = "reused" /\ canonical[k].state # "submission_unknown"
    <3>1. /\ work' = [work EXCEPT ![t].res = DurableResult(k), ![t].fills = canonical[k].fills,
                                  ![t].replay = TRUE]
          /\ Goto(t, "resolve") /\ UNCHANGED <<at, canonical>>
      BY <1>1, <1>5, <2>2 DEF Create
    <3>2. pc'[t] = "resolve" /\ Cur(t)' = k
      BY <1>0, <1>1, <3>1, WhereNext DEF Step, Cur
    <3>3. work'[t].res = DurableResult(k)
      BY <3>1, SMTT(60) DEF HandlerTypeOK, Local
    <3>4. ~canonical[k].unknown
      BY <2>2 DEF CreateOutcome
    <3>5. Closed(k) => DurableResult(k).status \in TerminalStatus
      <4>1. Closed(k) => canonical[k].state \in TerminalState
        BY DEF RowKept
      <4>2. canonical[k].state \in TerminalState => DurableResult(k).status \in TerminalStatus
        BY SMTT(60) DEF DurableResult, DurableStatusOf, TerminalState, TerminalStatus
      <4> QED BY <4>1, <4>2
    <3>6. DurableResult(k).ref = "venue" => Known(k)
      BY DEF RowKept, DurableResult
    <3>7. Closed(k)' = Closed(k) /\ Known(k)' = Known(k)
      BY <1>0 DEF Closed, Known
    <3>8. InPlace(t)'
      BY <3>1, <3>2, <3>3, <3>4, <3>5, <3>6, <3>7
         DEF InPlace, InDoubt, Certain, Reporting, Closed, Known
    <3> QED BY <1>2, <3>1, <3>8
  <2>3. CASE \/ CreateOutcome(k, same) = "reused" /\ canonical[k].state = "submission_unknown"
             \/ CreateOutcome(k, same) = "collision"
    <3>1. UNCHANGED canonical /\ \E res : NextLeg(t, res)
      BY <1>1, <1>5, <2>3 DEF Create
    <3>2. pc'[t] \in Away
      BY <3>1, WhereNext
    <3> QED BY <1>2, <1>3, <3>1, <3>2
  <2>4. CreateOutcome(k, same) \in {"fresh", "reused", "collision"}
    BY DEF CreateOutcome
  <2> QED BY <2>1, <2>2, <2>3, <2>4
<1> QED BY <1>4, <1>5

LEMMA KeptPersisted ==
  ASSUME ExecutionTypeInv, AttemptInv, \A l \in Leg : RowKept(l), NEW t \in Task, InPlace(t),
         Persist(t) \/ Abort(t)
  PROVE  (\A l \in Leg : RowKept(l)') /\ InPlace(t)'
<1> LedgerTypeOK /\ HandlerTypeOK /\ UnderWay
  BY TypeParts DEF ExecutionTypeInv
<1>0. pc[t] \in {"persist", "abort"} /\ UNCHANGED <<submissions, venue, tracked, job>>
  <2>1. pc[t] \in {"persist", "abort"} /\ UNCHANGED <<submissions, venue, tracked, unmoved>>
    BY ZenonT(60) DEF Persist, Abort
  <2> QED BY <2>1 DEF unmoved
<1>1. PICK k \in Leg : k = Cur(t)
  BY <1>0, CurLeg
<1>2. RowKept(k) /\ canonical[k] \in Canonical /\ pending[k] \in PendingRow
  BY DEF LedgerTypeOK
<1>3. ~canonical[k].unknown
  BY <1>0, <1>1 DEF InPlace, Certain
<1>4. CASE Persist(t)
  <2>0. UNCHANGED <<canonical, at>> /\ Cur(t)' = k
    BY <1>0, <1>1, <1>4 DEF Persist, Cur
  <2>1. PersistRow(k) \/ UNCHANGED pending
    BY <1>1, <1>4 DEF Persist
  <2>2. PersistRow(k) => pending'[k] = NewRow /\ \A l \in Leg \ {k} : pending'[l] = pending[l]
    BY DEF PersistRow, NewRow, LedgerTypeOK
  <2>3. \A l \in Leg : RowKept(l)'
    <3>1. CASE UNCHANGED pending
      BY <1>0, <2>0, <3>1, LedgerStill
    <3>2. CASE PersistRow(k)
      <4>1. ~Closed(k)' /\ pending'[k].status = "pending" /\ pending'[k].ref = "none"
        BY <2>2, <3>2, SMTT(60) DEF Closed, NewRow, Recoverable
      <4> QED BY <1>0, <2>0, <2>2, <3>2, <4>1, RowMove
    <3> QED BY <2>1, <3>1, <3>2
  <2>4. InPlace(t)'
    <3>1. \/ pc'[t] = "abort" \/ (pc'[t] = "submit" /\ PersistRow(k))
      BY <1>1, <1>4, WhereNext DEF Persist, Step
    <3> QED BY <1>3, <2>0, <2>2, <3>1 DEF InPlace, InDoubt, Certain, Reporting
  <2> QED BY <2>3, <2>4
<1>5. CASE Abort(t)
  <2>0. UNCHANGED pending
    BY <1>5 DEF Abort
  <2>1. AbortPreSubmission(k) \/ UNCHANGED canonical
    BY <1>1, <1>5 DEF Abort
  <2>2. \A l \in Leg : RowKept(l)'
    <3>1. CASE UNCHANGED canonical
      BY <1>0, <2>0, <3>1, LedgerStill
    <3>2. CASE AbortPreSubmission(k)
      <4>1. /\ canonical'[k].state = "rejected" /\ canonical'[k].unknown = canonical[k].unknown
            /\ canonical'[k].ref = canonical[k].ref
            /\ \A l \in Leg \ {k} : canonical'[l] = canonical[l]
        BY <1>2, <3>2 DEF AbortPreSubmission, LedgerTypeOK, Canonical
      <4>2. canonical[k].ref = "venue" => Known(k)
        BY <1>2 DEF RowKept
      <4>3. canonical'[k].state \in TerminalState
        BY <4>1 DEF TerminalState
      <4> QED BY <1>0, <1>3, <2>0, <4>1, <4>2, <4>3, CanonicalMove
    <3> QED BY <2>1, <3>1, <3>2
  <2>3. pc'[t] \in Away
    BY <1>5, WhereNext DEF Abort
  <2> QED BY <2>2, <2>3, AwayOutside, Outside
<1> QED BY <1>4, <1>5

LEMMA KeptSent ==
  ASSUME ExecutionTypeInv, AttemptInv, \A l \in Leg : RowKept(l), NEW t \in Task, InPlace(t),
         Submit(t)
  PROVE  (\A l \in Leg : RowKept(l)') /\ InPlace(t)'
<1> LedgerTypeOK /\ HandlerTypeOK /\ UnderWay
  BY TypeParts DEF ExecutionTypeInv
<1>0. pc[t] = "submit" /\ UNCHANGED <<canonical, pending, tracked, job, at>>
  BY DEF Submit, unmoved
<1>1. PICK k \in Leg : k = Cur(t)
  BY <1>0, CurLeg
<1>2. RowKept(k) /\ Attempt(k) /\ submissions[k] \in Nat /\ t \in InHand(k)
  BY <1>0, <1>1 DEF LedgerTypeOK, AttemptInv, InHand
<1>3. pending[k] = NewRow /\ ~canonical[k].unknown
  BY <1>0, <1>1 DEF InPlace, InDoubt, Certain
<1>4. ~Closed(k) /\ pending[k].status = "pending" /\ pending[k].ref = "none"
  BY <1>3, SMTT(60) DEF Closed, NewRow, Recoverable
<1>5. canonical[k].ref # "venue"
  <2>1. venue[k].state = "none"
    BY <1>2 DEF Attempt
  <2> QED BY <1>2, <2>1 DEF RowKept, Known
<1>6. \A l \in Leg \ {k} : submissions'[l] = submissions[l] /\ venue'[l] = venue[l]
  <2>1. submissions' = [submissions EXCEPT ![k] = @ + 1]
    BY <1>1 DEF Submit
  <2>2. (\E o : venue' = [venue EXCEPT ![k] = o]) \/ UNCHANGED venue
    BY <1>1 DEF Submit, VenueAccepts
  <2> QED BY <2>1, <2>2 DEF LedgerTypeOK
<1>7. RowKept(k)'
  <2>1. ~Closed(k)'
    BY <1>0, <1>4 DEF Closed
  <2> QED BY <1>0, <1>2, <1>3, <1>4, <1>5, <2>1 DEF RowKept
<1>8. ASSUME NEW l \in Leg \ {k} PROVE RowKept(l)'
  <2>1. RowKept(l) /\ venue'[l] = venue[l] /\ submissions'[l] = submissions[l]
    BY <1>6
  <2>2. Known(l)' = Known(l)
    BY <2>1 DEF Known
  <2> QED BY <1>0, <2>1, <2>2, RowFrame
<1>9. InPlace(t)'
  <2>1. pc'[t] = "reply" /\ Cur(t)' = k
    BY <1>0, <1>1, WhereNext DEF Submit, Step, Cur
  <2> QED BY <1>0, <1>3, <2>1 DEF InPlace, InDoubt, Certain, Reporting
<1> QED BY <1>7, <1>8, <1>9

LEMMA KeptReply ==
  ASSUME ExecutionTypeInv, NEW t \in Task, InPlace(t), Reply(t)
  PROVE  InPlace(t)'
<1> LedgerTypeOK /\ HandlerTypeOK /\ UnderWay
  BY TypeParts DEF ExecutionTypeInv
<1>0. pc[t] = "reply" /\ UNCHANGED <<canonical, pending, venue, job, at>>
  BY DEF Reply, unmoved, ledgerVars
<1>1. PICK k \in Leg : k = Cur(t)
  BY <1>0, CurLeg
<1>2. pending[k] = NewRow /\ ~canonical[k].unknown /\ Cur(t)' = k
  BY <1>0, <1>1 DEF InPlace, InDoubt, Certain, Cur
<1>3. ~Closed(k)
  BY <1>2, SMTT(60) DEF Closed, NewRow, Recoverable
<1>4. CASE pc'[t] = "unknown"
  BY <1>0, <1>2, <1>4 DEF InPlace, InDoubt, Certain, Reporting
<1>5. ASSUME NEW res, Goto(t, "fills"), work' = [work EXCEPT ![t].res = res],
             res.ref = "venue" => Known(k)
      PROVE  InPlace(t)'
  <2>1. pc'[t] = "fills" /\ work'[t].res = res
    BY <1>5, WhereNext, SMTT(60) DEF Step, HandlerTypeOK, Local
  <2>2. Closed(k)' = Closed(k) /\ Known(k)' = Known(k)
    BY <1>0 DEF Closed, Known
  <2> QED BY <1>0, <1>2, <1>3, <1>5, <2>1, <2>2
       DEF InPlace, InDoubt, Certain, Reporting, Closed, Known
<1>6. RejectedResult.ref # "venue" /\ [RejectedResult EXCEPT !.status = "PENDING"].ref # "venue"
  BY DEF RejectedResult
<1>7. venue[k].state # "none" /\ VenueResult(k).ref = "venue" => Known(k)
  BY DEF VenueResult, Known
<1>8. Goto(t, "unknown") => pc'[t] = "unknown"
  BY WhereNext DEF Step
<1> QED BY <1>1, <1>4, <1>5, <1>6, <1>7, <1>8 DEF Reply

LEMMA KeptUnknown ==
  ASSUME ExecutionTypeInv, \A l \in Leg : RowKept(l), NEW t \in Task, InPlace(t),
         MarkUnknown(t) \/ MarkUnknownRow(t)
  PROVE  (\A l \in Leg : RowKept(l)') /\ InPlace(t)'
<1> LedgerTypeOK /\ HandlerTypeOK /\ UnderWay
  BY TypeParts DEF ExecutionTypeInv
<1>0. pc[t] \in {"unknown", "unknown_row"} /\ UNCHANGED <<submissions, venue, job>>
  <2>1. pc[t] \in {"unknown", "unknown_row"} /\ UNCHANGED <<submissions, venue, unmoved>>
    BY ZenonT(60) DEF MarkUnknown, MarkUnknownRow
  <2> QED BY <2>1 DEF unmoved
<1>1. PICK k \in Leg : k = Cur(t)
  BY <1>0, CurLeg
<1>2. RowKept(k) /\ canonical[k] \in Canonical /\ pending[k] = NewRow
  BY <1>0, <1>1 DEF LedgerTypeOK, InPlace, InDoubt
<1>3. ~Closed(k) /\ pending[k].status = "pending" /\ pending[k].ref = "none"
  BY <1>2, SMTT(60) DEF Closed, NewRow, Recoverable
<1>4. CASE MarkUnknown(t)
  <2>0. UNCHANGED <<pending, tracked>>
    BY <1>4 DEF MarkUnknown
  <2>1. MarkCanonicalUnknown(k) \/ UNCHANGED canonical
    BY <1>1, <1>4 DEF MarkUnknown
  <2>2. MarkCanonicalUnknown(k) =>
          /\ canonical'[k].state = "submission_unknown" /\ canonical'[k].unknown
          /\ canonical'[k].ref = canonical[k].ref
          /\ \A l \in Leg \ {k} : canonical'[l] = canonical[l]
    BY <1>2, SMTT(60) DEF MarkCanonicalUnknown, LedgerTypeOK, Canonical
  <2>3. \A l \in Leg : RowKept(l)'
    <3>1. CASE UNCHANGED canonical
      BY <1>0, <2>0, <3>1, LedgerStill
    <3>2. CASE MarkCanonicalUnknown(k)
      <4>1. canonical[k].ref = "venue" => Known(k)
        BY <1>2 DEF RowKept
      <4> QED BY <1>0, <1>3, <2>0, <2>2, <3>2, <4>1, CanonicalMove
    <3> QED BY <2>1, <3>1, <3>2
  <2>4. \/ pc'[t] \in Away
        \/ (pc'[t] = "unknown_row" /\ MarkCanonicalUnknown(k) /\ UNCHANGED at)
    BY <1>1, <1>4, WhereNext DEF MarkUnknown, Step
  <2>5. CASE pc'[t] = "unknown_row" /\ MarkCanonicalUnknown(k) /\ UNCHANGED at
    <3>1. Cur(t)' = k /\ canonical'[k].unknown /\ pending'[k] = NewRow
      BY <1>0, <1>1, <1>2, <2>0, <2>2, <2>5 DEF Cur
    <3>2. InPlace(t)'
      BY <2>5, <3>1 DEF InPlace, InDoubt, Certain, Reporting
    <3> QED BY <2>3, <3>2
  <2> QED BY <2>3, <2>4, <2>5, AwayOutside, Outside
<1>5. CASE MarkUnknownRow(t)
  <2>0. UNCHANGED canonical /\ canonical[k].unknown
    BY <1>1, <1>5 DEF MarkUnknownRow, InPlace
  <2>1. MarkRowUnknown(k) \/ UNCHANGED pending
    BY <1>1, <1>5 DEF MarkUnknownRow
  <2>2. TrackUnknown(Home[t], k) \/ UNCHANGED tracked
    BY <1>1, <1>5 DEF MarkUnknownRow
  <2>3. \A r \in Replica, l \in Leg :
          tracked'[r][l] = "unknown" => tracked[r][l] = "unknown" \/ (l = k /\ canonical[k].unknown)
    BY <2>0, <2>2, SMTT(60) DEF TrackUnknown, LedgerTypeOK
  <2>4. MarkRowUnknown(k) => /\ pending'[k].status = "submission_unknown" /\ pending'[k].ref = "none"
                             /\ \A l \in Leg \ {k} : pending'[l] = pending[l]
    BY <1>3, SMTT(60) DEF MarkRowUnknown, LedgerTypeOK, PendingRow
  <2>5. /\ pending'[k].status \in {"pending", "submission_unknown"} /\ pending'[k].ref = "none"
        /\ \A l \in Leg \ {k} : pending'[l] = pending[l]
    BY <1>3, <2>1, <2>4
  <2>6. ~Closed(k)'
    BY <2>5 DEF Closed, Recoverable
  <2>7. \A l \in Leg : RowKept(l)'
    BY <1>0, <2>0, <2>3, <2>5, <2>6, RowMove
  <2>8. pc'[t] \in Away
    BY <1>5, WhereNext DEF MarkUnknownRow
  <2> QED BY <2>7, <2>8, AwayOutside, Outside
<1> QED BY <1>4, <1>5

LEMMA StatusTables ==
  \A s \in BrokerStatus :
    /\ s \in TerminalStatus <=> OrderStateOf[s] \in TerminalState
    /\ s \in TerminalStatus <=> RowStatusOf[s] \notin Recoverable
    /\ OrderStateOf[s] # "none"
    /\ RowStatusOf[s] \notin {"absent", "submission_unknown"}
  BY SMTT(60) DEF BrokerStatus, TerminalStatus, OrderStateOf, TerminalState, RowStatusOf, Recoverable

(* Applying a result that ends an order whose row is closed.               *)
LEMMA KeptApplied ==
  ASSUME LedgerTypeOK, \A l \in Leg : RowKept(l), NEW k \in Leg, NEW res \in Result,
         NEW fills \in 0..Lots, ApplyBrokerResult(k, res, fills),
         UNCHANGED <<pending, submissions, venue>>,
         Closed(k) => res.status \in TerminalStatus, res.ref = "venue" => Known(k),
         \A r \in Replica, l \in Leg : tracked'[r][l] = "unknown" => tracked[r][l] = "unknown"
  PROVE  /\ \A l \in Leg : RowKept(l)'
         /\ res.status \in TerminalStatus => canonical'[k].state \in TerminalState
         /\ \A l \in Leg : canonical'[l].unknown = canonical[l].unknown
<1>1. res.status \in BrokerStatus
  BY ResultFields
<1>2. /\ canonical'[k].unknown = canonical[k].unknown
      /\ canonical'[k].state = IF canonical[k].state = "filled" THEN "filled"
                               ELSE OrderStateOf[res.status]
      /\ canonical'[k].ref \in {canonical[k].ref, res.ref}
      /\ \A l \in Leg \ {k} : canonical'[l] = canonical[l]
  BY SMTT(60) DEF ApplyBrokerResult, LedgerTypeOK, Canonical
<1>3. /\ res.status \in TerminalStatus => canonical'[k].state \in TerminalState
      /\ canonical'[k].state # "none"
  BY <1>1, <1>2, StatusTables, SMTT(60) DEF TerminalState
<1>4. canonical'[k].ref = "venue" => Known(k)
  <2>1. RowKept(k)
    OBVIOUS
  <2>2. canonical[k].ref = "venue" => Known(k)
    BY <2>1 DEF RowKept
  <2> QED BY <1>2, <2>2
<1>5. \A l \in Leg : RowKept(l)'
  BY <1>2, <1>3, <1>4, CanonicalMove, SMTT(60)
<1> QED BY <1>2, <1>3, <1>5

(* Settling a row once the canonical order is.                             *)
LEMMA KeptSettled ==
  ASSUME LedgerTypeOK, \A l \in Leg : RowKept(l), NEW k \in Leg, NEW res \in Result,
         ResolveRow(k, res), UNCHANGED <<canonical, submissions, venue>>,
         res.status \in TerminalStatus => /\ submissions[k] > 0 /\ canonical[k].state \in TerminalState
                                          /\ canonical[k].unknown => venue[k].state # "open",
         res.ref = "venue" => Known(k),
         \A r \in Replica, l \in Leg : tracked'[r][l] = "unknown" => tracked[r][l] = "unknown"
  PROVE  /\ \A l \in Leg : RowKept(l)'
         /\ \A l \in Leg \ {k} : pending'[l] = pending[l]
         /\ Closed(k)' <=> res.status \in TerminalStatus
<1>1. res.status \in BrokerStatus
  BY ResultFields
<1>2. /\ pending'[k].status = RowStatusOf[res.status] /\ pending'[k].ref = res.ref
      /\ \A l \in Leg \ {k} : pending'[l] = pending[l]
  BY DEF ResolveRow, LedgerTypeOK
<1>3. /\ pending'[k].status \notin {"absent", "submission_unknown"}
      /\ Closed(k)' <=> res.status \in TerminalStatus
  BY <1>1, <1>2, StatusTables, SMTT(60) DEF Closed
<1>4. \A l \in Leg : RowKept(l)'
  BY <1>2, <1>3, RowMove, SMTT(60)
<1> QED BY <1>2, <1>3, <1>4

LEMMA KeptReported ==
  ASSUME ExecutionTypeInv, AttemptInv, \A l \in Leg : RowKept(l), NEW t \in Task, InPlace(t),
         FetchFills(t) \/ ResolveCanonical(t) \/ ResolvePending(t)
  PROVE  (\A l \in Leg : RowKept(l)') /\ InPlace(t)'
<1> LedgerTypeOK /\ HandlerTypeOK /\ UnderWay
  BY TypeParts DEF ExecutionTypeInv
<1>0. pc[t] \in Reporting /\ UNCHANGED <<submissions, venue, job>>
  <2>1. pc[t] \in {"fills", "resolve", "resolve_row"} /\ UNCHANGED <<submissions, venue, unmoved>>
    BY ZenonT(60) DEF FetchFills, ResolveCanonical, ResolvePending
  <2> QED BY <2>1 DEF unmoved, Reporting
<1>1. pc[t] # "idle"
  BY <1>0 DEF Reporting
<1>2. PICK k \in Leg : k = Cur(t)
  BY <1>1, CurLeg
<1>3. PICK res \in Result : res = work[t].res
  BY LocalFields DEF HandlerTypeOK
<1>4. work[t].fills \in 0..Lots /\ res.ref \in Ref /\ Home[t] \in Replica
  BY LocalFields, ResultFields DEF HandlerTypeOK
<1>5. /\ ~canonical[k].unknown
      /\ Closed(k) => res.status \in TerminalStatus
      /\ res.ref = "venue" => Known(k)
  BY <1>0, <1>2, <1>3 DEF InPlace, Certain
<1>6. ASSUME Track(Home[t], k, res.ref) \/ Untrack(Home[t], k) \/ UNCHANGED tracked
      PROVE  \A r \in Replica, l \in Leg : tracked'[r][l] = "unknown" => tracked[r][l] = "unknown"
  BY <1>4, <1>6, CacheKnows
<1>7. KeepForRecovery(t) => /\ Track(Home[t], k, res.ref) \/ Untrack(Home[t], k)
                            /\ pc'[t] \in Away
  BY <1>2, <1>3, WhereNext DEF KeepForRecovery
<1>8. ASSUME pc'[t] \in Away PROVE InPlace(t)'
  BY <1>8, AwayOutside, Outside
<1>9. CASE FetchFills(t)
  <2>1. UNCHANGED <<canonical, pending>>
    BY <1>9 DEF FetchFills
  <2>2. \/ /\ UNCHANGED <<tracked, at>> /\ Goto(t, "resolve")
           /\ (UNCHANGED work \/ work' = [work EXCEPT ![t].fills = venue[Cur(t)].qty])
        \/ KeepForRecovery(t)
    BY <1>9 DEF FetchFills
  <2>3. \A l \in Leg : RowKept(l)'
    BY <1>0, <1>6, <1>7, <2>1, <2>2, LedgerStill
  <2>4. CASE UNCHANGED <<tracked, at>> /\ Goto(t, "resolve")
             /\ (UNCHANGED work \/ work' = [work EXCEPT ![t].fills = venue[Cur(t)].qty])
    <3>1. pc'[t] = "resolve" /\ Cur(t)' = k
      BY <1>0, <1>2, <2>4, WhereNext DEF Step, Cur
    <3>2. work'[t].res = res
      BY <1>3, <2>4, SMTT(60) DEF HandlerTypeOK, Local
    <3>3. Closed(k)' = Closed(k) /\ Known(k)' = Known(k)
      BY <1>0, <2>1 DEF Closed, Known
    <3>4. InPlace(t)'
      BY <1>5, <2>1, <3>1, <3>2, <3>3 DEF InPlace, InDoubt, Certain, Reporting, Closed, Known
    <3> QED BY <2>3, <3>4
  <2> QED BY <1>7, <1>8, <2>2, <2>3, <2>4
<1>10. CASE ResolveCanonical(t)
  <2>1. UNCHANGED pending
    BY <1>10 DEF ResolveCanonical
  <2>2. \/ /\ ApplyBrokerResult(k, res, work[t].fills) /\ Goto(t, "resolve_row")
           /\ UNCHANGED <<tracked, at, work>>
        \/ KeepForRecovery(t) /\ (ApplyBrokerResult(k, res, work[t].fills) \/ UNCHANGED canonical)
    BY <1>2, <1>3, <1>10 DEF ResolveCanonical
  <2>3. \A r \in Replica, l \in Leg : tracked'[r][l] = "unknown" => tracked[r][l] = "unknown"
    BY <1>6, <1>7, <2>2
  <2>4. ApplyBrokerResult(k, res, work[t].fills) =>
          /\ \A l \in Leg : RowKept(l)'
          /\ res.status \in TerminalStatus => canonical'[k].state \in TerminalState
          /\ canonical'[k].unknown = canonical[k].unknown
    BY <1>0, <1>4, <1>5, <2>1, <2>3, KeptApplied
  <2>5. \A l \in Leg : RowKept(l)'
    BY <1>0, <2>1, <2>2, <2>3, <2>4, LedgerStill
  <2>6. CASE ApplyBrokerResult(k, res, work[t].fills) /\ Goto(t, "resolve_row")
             /\ UNCHANGED <<tracked, at, work>>
    <3>1. pc'[t] = "resolve_row" /\ Cur(t)' = k /\ work'[t].res = res
      BY <1>0, <1>2, <1>3, <2>6, WhereNext DEF Step, Cur
    <3>2. Closed(k)' = Closed(k) /\ Known(k)' = Known(k)
      BY <1>0, <2>1 DEF Closed, Known
    <3>3. InPlace(t)'
      BY <1>5, <2>4, <2>6, <3>1, <3>2 DEF InPlace, InDoubt, Certain, Reporting, Closed, Known
    <3> QED BY <2>5, <3>3
  <2> QED BY <1>7, <1>8, <2>2, <2>5, <2>6
<1>11. CASE ResolvePending(t)
  <2>0. pc[t] = "resolve_row" /\ UNCHANGED canonical
    BY <1>11 DEF ResolvePending
  <2>1. /\ Track(Home[t], k, res.ref) \/ Untrack(Home[t], k)
        /\ ResolveRow(k, res) \/ UNCHANGED pending
        /\ NextLeg(t, res)
    BY <1>2, <1>3, <1>11 DEF ResolvePending, KeepForRecovery
  <2>2. res.status \in TerminalStatus => submissions[k] > 0 /\ canonical[k].state \in TerminalState
    <3>1. Placed(t)
      BY DEF AttemptInv
    <3>2. "PENDING" \notin TerminalStatus
      BY DEF TerminalStatus
    <3> QED BY <1>2, <1>3, <2>0, <3>1, <3>2 DEF Placed, InPlace
  <2>3. \A r \in Replica, l \in Leg : tracked'[r][l] = "unknown" => tracked[r][l] = "unknown"
    BY <1>6, <2>1
  <2>4. ResolveRow(k, res) => \A l \in Leg : RowKept(l)'
    BY <1>0, <1>5, <2>0, <2>2, <2>3, KeptSettled
  <2>5. \A l \in Leg : RowKept(l)'
    BY <1>0, <2>0, <2>1, <2>3, <2>4, LedgerStill
  <2>6. pc'[t] \in Away
    BY <2>1, WhereNext
  <2> QED BY <1>8, <2>5, <2>6
<1> QED BY <1>9, <1>10, <1>11

(* A confirmed cancel closes the row and the canonical order together.     *)
LEMMA KeptCancelled ==
  ASSUME ExecutionTypeInv, AttemptInv, \A l \in Leg : RowKept(l), NEW t \in Task, CancelOne(t)
  PROVE  (\A l \in Leg : RowKept(l)') /\ InPlace(t)'
<1> LedgerTypeOK /\ HandlerTypeOK /\ UnderWay
  BY TypeParts DEF ExecutionTypeInv
<1>0. pc'[t] = "cancel" /\ UNCHANGED submissions
  BY DEF CancelOne
<1> SUFFICES \A l \in Leg : RowKept(l)'
  BY <1>0, Outside DEF InDoubt, Certain, Reporting
<1>1. PICK k \in Leg :
        \/ UNCHANGED <<canonical, pending, tracked, venue>>
        \/ /\ CancelAtVenue(t, k)
           /\ venue' = [venue EXCEPT ![k].state = "canceled"]
           /\ UNCHANGED <<canonical, pending, tracked>>
        \/ /\ CancelAtVenue(t, k)
           /\ venue' = [venue EXCEPT ![k].state = "canceled"]
           /\ Untrack(Home[t], k)
           /\ (CanCancelWorking(k, "venue") /\ CancelWorking(k)) \/ UNCHANGED <<canonical, pending>>
  BY LocalFields DEF CancelOne, HandlerTypeOK
<1>2. \A r \in Replica, l \in Leg : tracked'[r][l] = "unknown" => tracked[r][l] = "unknown"
  <2>1. Untrack(Home[t], k) \/ UNCHANGED tracked
    BY <1>1
  <2>2. Home[t] \in Replica /\ "none" \in Ref
    BY DEF Ref
  <2> QED BY <2>1, <2>2, CacheKnows
<1>3. CASE UNCHANGED <<canonical, pending, tracked, venue>>
  BY <1>0, <1>2, <1>3, LedgerStill
<1>4. CASE CancelAtVenue(t, k) /\ venue' = [venue EXCEPT ![k].state = "canceled"]
  <2>1. /\ venue[k].state = "open" /\ venue'[k].state = "canceled"
        /\ \A l \in Leg \ {k} : venue'[l] = venue[l]
    BY <1>4 DEF CancelAtVenue, LedgerTypeOK, VenueOrder
  <2>2. \A l \in Leg : (Known(l) => Known(l)') /\ (venue[l].state # "open" => venue'[l].state # "open")
    BY <2>1 DEF Known
  <2>3. submissions[k] > 0
    <3>1. Attempt(k) /\ submissions[k] \in Nat
      BY DEF AttemptInv, LedgerTypeOK
    <3> QED BY <2>1, <3>1, SMTT(60) DEF Attempt
  <2>4. CASE UNCHANGED <<canonical, pending>>
    BY <1>0, <1>2, <2>2, <2>4, RowFrame
  <2>5. CASE CanCancelWorking(k, "venue") /\ CancelWorking(k)
    <3>1. /\ pending'[k].status = "cancelled" /\ pending'[k].ref = pending[k].ref
          /\ \A l \in Leg \ {k} : pending'[l] = pending[l]
      BY <2>5, SMTT(60) DEF CancelWorking, LedgerTypeOK, PendingRow
    <3>2. /\ canonical'[k].state \in TerminalState /\ canonical'[k].unknown = canonical[k].unknown
          /\ canonical'[k].ref = canonical[k].ref
          /\ \A l \in Leg \ {k} : canonical'[l] = canonical[l]
      BY <2>5, SMTT(60) DEF CancelWorking, LedgerTypeOK, Canonical, TerminalState
    <3>3. RowKept(k)'
      <4>1. RowKept(k) /\ canonical[k].state # "none"
        <5>1. Attempt(k)
          BY DEF AttemptInv
        <5> QED BY <2>3, <5>1 DEF Attempt
      <4>2. canonical'[k].state # "none"
        BY <3>2 DEF TerminalState
      <4>3. venue'[k].state # "open"
        BY <2>1
      <4> QED BY <1>0, <1>2, <2>2, <2>3, <3>1, <3>2, <4>1, <4>2, <4>3, SMTT(60) DEF RowKept
    <3>4. ASSUME NEW l \in Leg \ {k} PROVE RowKept(l)'
      BY <1>0, <1>2, <2>2, <3>1, <3>2, RowFrame, SMTT(60)
    <3> QED BY <3>3, <3>4
  <2> QED BY <1>1, <1>4, <2>1, <2>4, <2>5
<1> QED BY <1>1, <1>3, <1>4

(* A step of a handler, and what it leaves of a closed row.                *)
LEMMA KeptHandler ==
  ASSUME ExecutionTypeInv, AttemptInv, \A l \in Leg : RowKept(l), NEW t \in Task, InPlace(t),
         HandlerStep(t)
  PROVE  (\A l \in Leg : RowKept(l)') /\ InPlace(t)'
<1> HandlerTypeOK
  BY TypeParts DEF ExecutionTypeInv
<1> DEFINE Goal == (\A l \in Leg : RowKept(l)') /\ InPlace(t)'
<1>1. ASSUME UNCHANGED ledgerVars PROVE \A l \in Leg : RowKept(l)'
  <2>1. UNCHANGED <<canonical, pending, submissions, venue, tracked>>
    BY <1>1 DEF ledgerVars
  <2> QED BY <2>1, LedgerStill
<1>2. ASSUME pc'[t] \in Away PROVE InPlace(t)'
  BY <1>2, AwayOutside, Outside
<1>3. CASE Reply(t)
  <2>1. UNCHANGED ledgerVars
    BY <1>3 DEF Reply
  <2> QED BY <1>1, <1>3, <2>1, KeptReply
<1>4. CASE EnterBusy(t) \/ EnterLock(t) \/ EnterClaim(t) \/ EnterFails(t) \/ Claim(t) \/ Gate(t)
           \/ CancelDone(t) \/ Aggregate(t) \/ Finalize(t) \/ LeaveRow(t) \/ LeaveUnlock(t)
  <2>1. UNCHANGED ledgerVars
    BY <1>4, ZenonT(60) DEF EnterBusy, EnterLock, EnterClaim, EnterFails, Claim, Gate,
       CancelDone, Aggregate, Finalize, LeaveRow, LeaveUnlock
  <2>2. {"enter", "claim", "gate", "cancel", "create", "finalize", "leave"} \subseteq Away
    BY DEF Away, Step, Hands, Sent, Resolving
  <2>3. CASE EnterBusy(t) \/ LeaveUnlock(t) \/ Aggregate(t)
    <3>1. (\E a : Answer(t, a)) \/ Raise(t) \/ Goto(t, "finalize")
      BY <2>3 DEF EnterBusy, LeaveUnlock, Aggregate
    <3>2. pc'[t] \in Away
      BY <2>2, <3>1, WhereNext DEF Away
    <3> QED BY <1>1, <1>2, <2>1, <3>2
  <2>4. CASE EnterLock(t) \/ LeaveRow(t)
    <3>1. pc'[t] \in {"enter", "leave"}
      BY <2>4 DEF EnterLock, LeaveRow, handlerVars
    <3> QED BY <1>1, <1>2, <2>1, <2>2, <3>1
  <2>5. CASE EnterClaim(t) \/ EnterFails(t) \/ Claim(t) \/ Gate(t) \/ CancelDone(t) \/ Finalize(t)
    <3>1. \E s \in {"enter", "claim", "gate", "cancel", "create", "finalize", "leave"} : Goto(t, s)
      BY <2>5, ZenonT(60) DEF EnterClaim, EnterFails, Claim, Gate, CancelDone, Finalize
    <3>2. pc'[t] \in Away
      BY <2>2, <3>1, WhereNext DEF Away
    <3> QED BY <1>1, <1>2, <2>1, <3>2
  <2> QED BY <1>4, <2>3, <2>4, <2>5
<1>5. CASE CancelOne(t)
  BY <1>5, KeptCancelled
<1>6. CASE (\E same \in BOOLEAN : Create(t, same)) \/ CreateFails(t)
  BY <1>6, KeptCreate
<1>7. CASE Persist(t) \/ Abort(t)
  BY <1>7, KeptPersisted
<1>8. CASE Submit(t)
  BY <1>8, KeptSent
<1>9. CASE MarkUnknown(t) \/ MarkUnknownRow(t)
  BY <1>9, KeptUnknown
<1>10. CASE FetchFills(t) \/ ResolveCanonical(t) \/ ResolvePending(t)
  BY <1>10, KeptReported
<1> QED BY <1>3, <1>4, <1>5, <1>6, <1>7, <1>8, <1>9, <1>10 DEF HandlerStep

LEMMA ClosedStays ==
  ASSUME ExecutionTypeInv, NEW t \in Task, InPlace(t), HandlerStep(t), NEW l \in Leg, Closed(l)
  PROVE  Closed(l)'
<1> LedgerTypeOK /\ HandlerTypeOK /\ UnderWay /\ pending \in [Leg -> PendingRow]
  BY TypeParts DEF ExecutionTypeInv, LedgerTypeOK
<1>1. ASSUME UNCHANGED pending PROVE Closed(l)'
  BY <1>1 DEF Closed
<1>2. ASSUME NEW k, pending[k].status \in {"absent", "pending"} \/ k # l,
             (\E row : pending' = [pending EXCEPT ![k] = row])
             \/ (\E s : pending' = [pending EXCEPT ![k].status = s])
      PROVE  Closed(l)'
  <2>1. k # l
    BY <1>2 DEF Closed, Recoverable
  <2> QED BY <1>2, <2>1 DEF Closed
<1>3. CASE Persist(t)
  <2>1. PersistRow(Cur(t)) \/ UNCHANGED pending
    BY <1>3 DEF Persist
  <2>2. PersistRow(Cur(t)) => pending[Cur(t)].status = "absent"
                              /\ \E row : pending' = [pending EXCEPT ![Cur(t)] = row]
    BY DEF PersistRow, CanPersist
  <2> QED BY <1>1, <1>2, <2>1, <2>2
<1>4. CASE MarkUnknownRow(t)
  <2>1. MarkRowUnknown(Cur(t)) \/ UNCHANGED pending
    BY <1>4 DEF MarkUnknownRow
  <2>2. pending[Cur(t)].status = "pending"
    BY <1>4, SMTT(60) DEF MarkUnknownRow, InPlace, InDoubt, NewRow
  <2>3. MarkRowUnknown(Cur(t)) => \E s : pending' = [pending EXCEPT ![Cur(t)].status = s]
    BY DEF MarkRowUnknown
  <2> QED BY <1>1, <1>2, <2>1, <2>2, <2>3
<1>5. CASE ResolvePending(t)
  <2>0. pc[t] = "resolve_row"
    BY <1>5 DEF ResolvePending
  <2>1. PICK k \in Leg : k = Cur(t)
    BY <2>0, CurLeg
  <2>2. PICK res \in Result : res = work[t].res
    BY LocalFields DEF HandlerTypeOK
  <2>3. ResolveRow(k, res) \/ UNCHANGED pending
    BY <1>5, <2>1, <2>2 DEF ResolvePending
  <2>4. CASE ResolveRow(k, res) /\ k = l
    <3>1. res.status \in TerminalStatus
      BY <2>0, <2>1, <2>2, <2>4 DEF InPlace, Reporting
    <3>2. res.status \in BrokerStatus
      BY ResultFields
    <3>3. pending'[l].status = RowStatusOf[res.status]
      BY <2>4 DEF ResolveRow
    <3> QED BY <3>1, <3>2, <3>3, StatusTables DEF Closed
  <2>5. CASE ResolveRow(k, res) /\ k # l
    BY <1>2, <2>5 DEF ResolveRow
  <2> QED BY <1>1, <2>3, <2>4, <2>5
<1>6. CASE CancelOne(t)
  <2>1. \/ UNCHANGED pending
        \/ \E k : CancelWorking(k)
    BY <1>6 DEF CancelOne
  <2>2. ASSUME NEW k, CancelWorking(k) PROVE Closed(l)'
    <3>1. pending' = [pending EXCEPT ![k].status = "cancelled"]
      BY <2>2 DEF CancelWorking
    <3>2. CASE k = l
      <4>1. pending'[l].status = "cancelled"
        BY <3>1, <3>2 DEF PendingRow
      <4> QED BY <4>1 DEF Closed, Recoverable
    <3>3. CASE k # l
      BY <1>2, <3>1, <3>3
    <3> QED BY <3>2, <3>3
  <2> QED BY <1>1, <2>1, <2>2
<1>7. CASE ~(Persist(t) \/ MarkUnknownRow(t) \/ ResolvePending(t) \/ CancelOne(t))
  <2>1. UNCHANGED ledgerVars \/ UNCHANGED pending
    BY <1>7, ZenonT(60) DEF HandlerStep, EnterBusy, EnterLock, EnterClaim, EnterFails, Claim, Gate,
       CancelDone, Create, CreateFails, Abort, Submit, Reply, MarkUnknown, FetchFills,
       ResolveCanonical, Aggregate, Finalize, LeaveRow, LeaveUnlock
  <2> QED BY <1>1, <2>1 DEF ledgerVars
<1> QED BY <1>3, <1>4, <1>5, <1>6, <1>7

(* A handler that is not inside writes nothing.                            *)
LEMMA OutsideWrites ==
  ASSUME HandlerTypeOK, NEW t \in Task, HandlerStep(t), pc[t] \notin Body
  PROVE  UNCHANGED ledgerVars
<1>1. pc[t] \in {"idle", "enter"}
  BY DEF HandlerTypeOK, Body
<1>2. EnterBusy(t) \/ EnterLock(t) \/ EnterClaim(t) \/ EnterFails(t)
  BY <1>1, ZenonT(60) DEF HandlerStep, Claim, Gate, CancelOne, CancelDone, Create, CreateFails,
     Persist, Abort, Submit, Reply, MarkUnknown, MarkUnknownRow, FetchFills, ResolveCanonical,
     ResolvePending, Aggregate, Finalize, LeaveRow, LeaveUnlock
<1> QED BY <1>2 DEF EnterBusy, EnterLock, EnterClaim, EnterFails

-----------------------------------------------------------------------------
(* The same for every step, with the other handlers beside.                *)

RowsKept == (\A l \in Leg : RowKept(l)) /\ (\A t \in Task : InPlace(t))

Finished(l) == venue[l].state \in {"done", "canceled"}

LEMMA InPlaceFrame ==
  ASSUME HandlerTypeOK, UnderWay, NEW t \in Task, InPlace(t), pc'[t] = pc[t], work'[t] = work[t],
         job'[t] = job[t], at'[t] = at[t], UNCHANGED <<canonical, pending>>,
         \A l \in Leg : Known(l) => Known(l)'
  PROVE  InPlace(t)'
<1>1. Cur(t)' = Cur(t)
  BY DEF Cur
<1>2. CASE pc[t] = "idle"
  BY <1>2, Outside DEF InDoubt, Certain, Reporting
<1>3. CASE pc[t] # "idle"
  <2>1. PICK k \in Leg : k = Cur(t)
    BY <1>3, CurLeg
  <2>2. Known(k) => Known(k)'
    OBVIOUS
  <2>3. /\ Known(Cur(t)) => Known(Cur(t))'
        /\ Closed(Cur(t))' = Closed(Cur(t))
    BY <1>1, <2>1, <2>2 DEF Known, Closed
  <2> QED BY <1>1, <2>3 DEF InPlace
<1> QED BY <1>2, <1>3

LEMMA VenueMoves ==
  ASSUME LedgerTypeOK, NEW k \in Leg, VenueProgress(k), NEW l \in Leg
  PROVE  /\ (Known(l) => Known(l)') /\ (Finished(l) => Finished(l)')
         /\ venue[l].state # "open" => venue'[l].state # "open"
<1>1. CASE l = k
  <2>1. venue[l].state = "open" /\ venue'[l].state \in {"open", "done", "canceled"}
    BY <1>1, SMTT(60) DEF VenueProgress, LedgerTypeOK, VenueOrder
  <2> QED BY <2>1 DEF Known, Finished
<1>2. CASE l # k
  <2>1. (\E o : venue' = [venue EXCEPT ![k] = o]) \/ (\E s : venue' = [venue EXCEPT ![k].state = s])
    BY DEF VenueProgress
  <2>2. venue'[l] = venue[l]
    BY <1>2, <2>1 DEF LedgerTypeOK
  <2> QED BY <2>2 DEF Known, Finished
<1> QED BY <1>1, <1>2

LEMMA RowsKeptHandler ==
  ASSUME ExecutionTypeInv, AttemptInv, LockHolds, InSection, losses = 0, RowsKept,
         NEW t \in Task, HandlerStep(t)
  PROVE  RowsKept'
<1> HandlerTypeOK /\ UnderWay /\ (\A l \in Leg : RowKept(l)) /\ (\A u \in Task : InPlace(u))
  BY TypeParts DEF ExecutionTypeInv, RowsKept
<1>1. (\A l \in Leg : RowKept(l)') /\ InPlace(t)'
  BY KeptHandler
<1>2. ASSUME NEW u \in Task \ {t} PROVE InPlace(u)'
  <2>1. pc'[u] = pc[u] /\ job'[u] = job[u] /\ at'[u] = at[u] /\ work'[u] = work[u]
    BY OthersStay
  <2>2. CASE pc[t] \in Body
    <3>1. pc'[u] \notin Body
      BY <2>1, <2>2, Sole
    <3> QED BY <3>1, AwayOutside, Outside
  <2>3. CASE pc[t] \notin Body
    <3>1. UNCHANGED <<canonical, pending, venue>>
      BY <2>3, OutsideWrites DEF ledgerVars
    <3>2. \A l \in Leg : Known(l) => Known(l)'
      BY <3>1 DEF Known
    <3> QED BY <2>1, <3>1, <3>2, InPlaceFrame
  <2> QED BY <2>2, <2>3
<1> QED BY <1>1, <1>2 DEF RowsKept

(* What a step of nobody's changes: an order moves at the venue, a request *)
(* arrives, a replica loses its requests and reloads its cache.            *)
Moved ==
  /\ UNCHANGED <<canonical, pending, submissions>>
  /\ \A l \in Leg : /\ (Known(l) => Known(l)') /\ (Finished(l) => Finished(l)')
                    /\ venue[l].state # "open" => venue'[l].state # "open"
  /\ \A r \in Replica, l \in Leg :
       tracked'[r][l] = "unknown" => tracked[r][l] = "unknown" \/ canonical[l].unknown
  /\ \A u \in Task : \/ pc'[u] \in {"idle", "enter"}
                     \/ /\ pc'[u] = pc[u] /\ job'[u] = job[u] /\ at'[u] = at[u]
                        /\ work'[u] = work[u]

LEMMA RowsFrame ==
  ASSUME ExecutionTypeInv, RowsKept, Moved PROVE RowsKept'
<1> HandlerTypeOK /\ UnderWay /\ (\A l \in Leg : RowKept(l)) /\ (\A u \in Task : InPlace(u))
  BY TypeParts DEF ExecutionTypeInv, RowsKept
<1>0. UNCHANGED <<canonical, pending, submissions>>
  BY DEF Moved
<1>1. ASSUME NEW l \in Leg PROVE RowKept(l)'
  <2>1. RowKept(l) /\ Closed(l)' = Closed(l)
    BY <1>0 DEF Closed
  <2>2. (Known(l) => Known(l)') /\ (venue[l].state # "open" => venue'[l].state # "open")
    BY DEF Moved
  <2>3. \A r \in Replica : tracked'[r][l] = "unknown" => canonical[l].unknown
    BY <2>1 DEF RowKept, Moved
  <2> QED BY <1>0, <2>1, <2>2, <2>3 DEF RowKept
<1>2. ASSUME NEW u \in Task PROVE InPlace(u)'
  <2>1. CASE pc'[u] \in {"idle", "enter"}
    BY <2>1, Outside DEF InDoubt, Certain, Reporting
  <2>2. CASE pc'[u] = pc[u] /\ job'[u] = job[u] /\ at'[u] = at[u] /\ work'[u] = work[u]
    <3>1. \A l \in Leg : Known(l) => Known(l)'
      BY DEF Moved
    <3> QED BY <1>0, <2>2, <3>1, InPlaceFrame
  <2> QED BY <2>1, <2>2 DEF Moved
<1> QED BY <1>1, <1>2 DEF RowsKept

LEMMA RestMoves ==
  ASSUME ExecutionTypeInv, RowsKept, losses = 0, losses' = 0,
         \/ \E t \in Task, c \in Command : Deliver(t, c)
         \/ Environment
         \/ \E r \in Replica : Crash(r)
         \/ UNCHANGED vars
  PROVE  Moved
<1> LedgerTypeOK /\ HandlerTypeOK /\ (\A l \in Leg : RowKept(l))
  BY TypeParts DEF ExecutionTypeInv, RowsKept
<1>1. ASSUME UNCHANGED venue
      PROVE  \A l \in Leg : /\ (Known(l) => Known(l)') /\ (Finished(l) => Finished(l)')
                            /\ venue[l].state # "open" => venue'[l].state # "open"
  BY <1>1 DEF Known, Finished
<1>2. ASSUME NEW t \in Task, NEW c \in Command, Deliver(t, c) PROVE Moved
  <2>1. UNCHANGED <<canonical, pending, submissions, venue, tracked>>
    BY <1>2 DEF Deliver, ledgerVars
  <2>2. /\ pc'[t] = "enter"
        /\ \A u \in Task \ {t} : /\ pc'[u] = pc[u] /\ job'[u] = job[u] /\ at'[u] = at[u]
                                 /\ work'[u] = work[u]
    BY <1>2 DEF Deliver, Goto, HandlerTypeOK
  <2> QED BY <1>1, <2>1, <2>2 DEF Moved
<1>3. ASSUME Environment PROVE Moved
  <2>1. ASSUME NEW t \in Task, LoseSession(t) PROVE FALSE
    BY <2>1, SMTT(60) DEF LoseSession
  <2>2. UNCHANGED handlerVars
    BY <1>3, <2>1 DEF Environment
  <2>3. UNCHANGED <<pc, job, at, work>>
    BY <2>2 DEF handlerVars
  <2>4. CASE UNCHANGED ledgerVars
    <3>1. UNCHANGED <<canonical, pending, submissions, venue, tracked>>
      BY <2>4 DEF ledgerVars
    <3> QED BY <1>1, <2>3, <3>1 DEF Moved
  <2>5. ASSUME NEW k \in Leg, VenueProgress(k) PROVE Moved
    <3>1. UNCHANGED <<canonical, pending, submissions, tracked>>
      BY <2>5 DEF VenueProgress
    <3>2. \A l \in Leg : /\ (Known(l) => Known(l)') /\ (Finished(l) => Finished(l)')
                         /\ venue[l].state # "open" => venue'[l].state # "open"
      BY <2>5, VenueMoves
    <3> QED BY <2>3, <3>1, <3>2 DEF Moved
  <2> QED BY <1>3, <2>1, <2>4, <2>5 DEF Environment
<1>4. ASSUME NEW r \in Replica, Crash(r) PROVE Moved
  <2>1. /\ UNCHANGED <<canonical, pending, submissions, venue>>
        /\ tracked' = [tracked EXCEPT ![r] = Rehydrated]
        /\ pc' = [t \in Task |-> IF t \in Residents(r) THEN "idle" ELSE pc[t]]
        /\ job' = [t \in Task |-> IF t \in Residents(r) THEN NoCommand ELSE job[t]]
        /\ at' = [t \in Task |-> IF t \in Residents(r) THEN "primary" ELSE at[t]]
        /\ work' = [t \in Task |-> IF t \in Residents(r) THEN NoWork ELSE work[t]]
    BY <1>4 DEF Crash
  <2>2. ASSUME NEW q \in Replica, NEW l \in Leg, tracked'[q][l] = "unknown"
        PROVE  tracked[q][l] = "unknown" \/ canonical[l].unknown
    <3>1. CASE q # r
      BY <2>1, <2>2, <3>1 DEF LedgerTypeOK
    <3>2. CASE q = r
      <4>1. Rehydrated[l] = "unknown"
        BY <2>1, <2>2, <3>2 DEF LedgerTypeOK
      <4>2. pending[l].ref # "unknown"
        BY DEF LedgerTypeOK, PendingRow, Ref
      <4>3. pending[l].status = "submission_unknown"
        BY <4>1, <4>2 DEF Rehydrated
      <4>4. RowKept(l)
        OBVIOUS
      <4> QED BY <4>3, <4>4 DEF RowKept
    <3> QED BY <3>1, <3>2
  <2>3. \A u \in Task : \/ pc'[u] \in {"idle", "enter"}
                        \/ /\ pc'[u] = pc[u] /\ job'[u] = job[u] /\ at'[u] = at[u]
                           /\ work'[u] = work[u]
    BY <2>1
  <2> QED BY <1>1, <2>1, <2>2, <2>3 DEF Moved
<1>5. ASSUME UNCHANGED vars PROVE Moved
  <2>1. /\ UNCHANGED <<canonical, pending, submissions, venue, tracked>>
        /\ UNCHANGED <<pc, job, at, work>>
    BY <1>5 DEF vars, ledgerVars, handlerVars
  <2> QED BY <1>1, <2>1 DEF Moved
<1> QED BY <1>2, <1>3, <1>4, <1>5

RowsInv == LockHolds /\ InSection /\ (losses = 0 => RowsKept)

LEMMA RowsInit == Init => RowsInv
<1> SUFFICES ASSUME Init PROVE RowsInv
  OBVIOUS
<1>1. pc = [t \in Task |-> "idle"] /\ LedgerInit
  BY DEF Init
<1>2. LockHolds
  BY DEF LockHolds, Init, SerializerInit
<1>3. InSection
  BY <1>1 DEF InSection, Body
<1>4. ASSUME NEW l \in Leg PROVE RowKept(l)
  <2>1. /\ submissions[l] = 0 /\ pending[l].status = "absent" /\ pending[l].ref = "none"
        /\ canonical[l].ref = "none" /\ ~canonical[l].unknown
        /\ \A r \in Replica : tracked[r][l] = "none"
    BY <1>1 DEF LedgerInit
  <2> QED BY <2>1, SMTT(60) DEF RowKept, Closed
<1>5. ASSUME NEW t \in Task PROVE InPlace(t)
  BY <1>1 DEF InPlace, InDoubt, Certain, Reporting
<1> QED BY <1>2, <1>3, <1>4, <1>5 DEF RowsInv, RowsKept

LEMMA RowsNext ==
  ASSUME ExecutionTypeInv, AttemptInv, RowsInv, [Next]_vars PROVE RowsInv'
<1> SerializerTypeOK /\ LockHolds /\ InSection
  BY TypeParts DEF ExecutionTypeInv, RowsInv
<1>1. [SerializerNext]_serializerVars
  BY SerializerStep
<1>2. LockHolds' /\ (losses' = 0 => losses = 0)
  BY <1>1, LockHoldsNext
<1>3. InSection'
  BY InSectionNext
<1>4. ASSUME losses' = 0 PROVE RowsKept'
  <2>1. losses = 0 /\ RowsKept
    BY <1>2, <1>4 DEF RowsInv
  <2>2. ASSUME NEW t \in Task, HandlerStep(t) PROVE RowsKept'
    BY <2>1, <2>2, RowsKeptHandler
  <2>3. CASE \/ \E t \in Task, c \in Command : Deliver(t, c)
             \/ Environment
             \/ \E r \in Replica : Crash(r)
             \/ UNCHANGED vars
    BY <1>4, <2>1, <2>3, RestMoves, RowsFrame
  <2> QED BY <2>2, <2>3 DEF Next
<1> QED BY <1>2, <1>3, <1>4 DEF RowsInv

(* Until a lock session is dropped, an order that was sent stays           *)
(* recoverable, whatever crashes and replays there were and also when      *)
(* stale commands are reclaimed: its row exists, and is closed only after  *)
(* the canonical order.                                                    *)
THEOREM SentStaysRecoverable == Spec => [](losses = 0 => SentIsRecoverable)
<1>1. ExecutionTypeInv /\ AttemptInv /\ RowsInv /\ [Next]_vars => RowsInv'
  BY RowsNext
<1>2. RowsInv => (losses = 0 => SentIsRecoverable)
  BY DEF RowsInv, RowsKept, RowKept, Closed, SentIsRecoverable
<1> QED BY <1>1, <1>2, RowsInit, DeadAlways, PTL DEF Spec
=============================================================================
