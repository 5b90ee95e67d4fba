-------------------------- MODULE AccountSerializer --------------------------
(***************************************************************************)
(* AccountExecutionSerializer of the execution engine, for one account     *)
(* partition.  A writer (a signal handler, the reconciliation worker, a    *)
(* rebalance, the paper lifecycle) runs its body inside                    *)
(* "async with serializer.hold(...)".                                      *)
(*                                                                         *)
(* Three things guard the body: an asyncio lock inside the replica, a      *)
(* PostgreSQL session advisory lock held on one dedicated connection, and  *)
(* a row that numbers the holds.  The advisory lock is gone as soon as the *)
(* server drops the session, which the holder does not notice before it    *)
(* leaves: the checks inside the body look only at a context variable.     *)
(***************************************************************************)
EXTENDS EngineReplicas, Integers

CONSTANTS Task,        \* coroutines that may hold the account
          Home,        \* Home[t]: the replica t runs in
          NoTask,      \* nobody
          MaxHolds,    \* bound: generations claimed
          MaxLosses,   \* bound: lock sessions dropped under a live holder
          MaxCrashes   \* bound: replica crashes

ASSUME SerializerAssumption ==
  /\ Home \in [Task -> Replica]
  /\ NoTask \notin Task
  /\ MaxHolds \in Nat
  /\ MaxLosses \in Nat
  /\ MaxCrashes \in Nat

VARIABLES local,      \* local[r]: the task that owns the asyncio lock of r
          advisory,   \* the task whose session owns the advisory lock
          genRow,     \* the AccountExecutionGeneration row
          phase,      \* phase[t]: where t is in hold()
          lease,      \* lease[t]: the generation of t's lease, 0 for None
          connected,  \* connected[t]: the server still has t's lock session
          ended,      \* ended[t]: how t released its generation
          peers,      \* history: the generations held while t was in its body
          losses, crashes

serializerVars == <<local, advisory, genRow, phase, lease, connected, ended,
                    peers, losses, crashes>>

Phase == {"idle", "locked", "held", "released"}
Ending == {"none", "clean", "failed", "fence_lost"}

\* The owner column holds a uuid drawn once per hold; the generation the hold
\* claims stands for it, and 0 stands for NULL.
GenerationRow == [generation : Nat, active_owner : Nat]

SerializerTypeOK ==
  /\ local \in [Replica -> Task \union {NoTask}]
  /\ advisory \in Task \union {NoTask}
  /\ genRow \in GenerationRow
  /\ phase \in [Task -> Phase]
  /\ lease \in [Task -> Nat]
  /\ connected \in [Task -> BOOLEAN]
  /\ ended \in [Task -> Ending]
  /\ peers \in [Task -> SUBSET Nat]
  /\ losses \in Nat
  /\ crashes \in Nat

SerializerInit ==
  /\ local = [r \in Replica |-> NoTask]
  /\ advisory = NoTask
  /\ genRow = [generation |-> 0, active_owner |-> 0]
  /\ phase = [t \in Task |-> "idle"]
  /\ lease = [t \in Task |-> 0]
  /\ connected = [t \in Task |-> FALSE]
  /\ ended = [t \in Task |-> "none"]
  /\ peers = [t \in Task |-> {}]
  /\ losses = 0
  /\ crashes = 0

-----------------------------------------------------------------------------
(* Entering *)

\* local_lock.locked() on this replica, or pg_try_advisory_lock on the server.
CanLockMutant(t) == local[Home[t]] = NoTask
CanLock(t) == local[Home[t]] = NoTask /\ advisory = NoTask

\* Without the lock, hold() raises AccountExecutionBusyError and changes
\* nothing.  Nothing yields the event loop between the local lock and the try-lock.
TryLock(t) ==
  /\ phase[t] = "idle"
  /\ genRow.generation < MaxHolds
  /\ CanLock(t)
  /\ local' = [local EXCEPT ![Home[t]] = t]
  /\ advisory' = t
  /\ connected' = [connected EXCEPT ![t] = TRUE]
  /\ phase' = [phase EXCEPT ![t] = "locked"]
  /\ UNCHANGED <<genRow, lease, ended, peers, losses, crashes>>

Holders == {t \in Task : phase[t] = "held"}

NextGenerationMutant == genRow.generation + (IF genRow.active_owner = 0 THEN 1 ELSE 0)
NextGeneration == genRow.generation + 1

\* _claim_generation: the row's own transaction, on another connection, so it
\* succeeds whether or not the lock session is still there.
ClaimGeneration(t) ==
  LET g == NextGeneration IN
  /\ phase[t] = "locked"
  /\ genRow' = [generation |-> g, active_owner |-> g]
  /\ lease' = [lease EXCEPT ![t] = g]
  /\ phase' = [phase EXCEPT ![t] = "held"]
  /\ peers' = [u \in Task |-> IF u = t THEN {lease[v] : v \in Holders}
                              ELSE IF u \in Holders THEN peers[u] \union {g}
                              ELSE peers[u]]
  /\ UNCHANGED <<local, advisory, connected, ended, losses, crashes>>

-----------------------------------------------------------------------------
(* Leaving *)

OwnsRowMutant(t) == genRow.active_owner # 0
OwnsRow(t) == genRow.generation = lease[t] /\ genRow.active_owner = lease[t]

\* The first half of the finally block: _release_generation.  It may fail, and
\* a failed write is committed or not.
ReleaseGeneration(t, reachable) ==
  /\ phase[t] = "held"
  /\ \/ /\ OwnsRow(t)
        /\ genRow' = [genRow EXCEPT !.active_owner = 0]
        /\ ended' = [ended EXCEPT ![t] = IF reachable THEN "clean" ELSE "failed"]
     \/ /\ ~reachable
        /\ ended' = [ended EXCEPT ![t] = "failed"]
        /\ UNCHANGED genRow
     \/ /\ reachable /\ ~OwnsRow(t)
        /\ ended' = [ended EXCEPT ![t] = "fence_lost"]
        /\ UNCHANGED genRow
  /\ phase' = [phase EXCEPT ![t] = "released"]
  /\ UNCHANGED <<local, advisory, lease, connected, peers, losses, crashes>>

\* _claim_generation raised, committed or not: the hold ends before its body.
ClaimFails(t) ==
  LET g == NextGeneration IN
  /\ phase[t] = "locked"
  /\ genRow' \in {genRow, [generation |-> g, active_owner |-> g]}
  /\ phase' = [phase EXCEPT ![t] = "released"]
  /\ ended' = [ended EXCEPT ![t] = "failed"]
  /\ UNCHANGED <<local, advisory, lease, connected, peers, losses, crashes>>

\* The second half: pg_advisory_unlock, connection.close, local_lock.release.
\* On a dropped session the unlock raises and replaces any earlier ending.
EndingOf(t) == IF connected[t] THEN ended[t] ELSE "unlock_failed"

UnlockMutant(t) ==
  /\ phase[t] = "released"
  /\ local' = [local EXCEPT ![Home[t]] = NoTask]
  /\ ended' = [ended EXCEPT ![t] = "none"]
  /\ connected' = [connected EXCEPT ![t] = FALSE]
  /\ phase' = [phase EXCEPT ![t] = "idle"]
  /\ lease' = [lease EXCEPT ![t] = 0]
  /\ peers' = [peers EXCEPT ![t] = {}]
  /\ UNCHANGED <<advisory, genRow, losses, crashes>>
Unlock(t) ==
  /\ phase[t] = "released"
  /\ advisory' = IF advisory = t THEN NoTask ELSE advisory
  /\ local' = [local EXCEPT ![Home[t]] = NoTask]
  /\ ended' = [ended EXCEPT ![t] = "none"]
  /\ connected' = [connected EXCEPT ![t] = FALSE]
  /\ phase' = [phase EXCEPT ![t] = "idle"]
  /\ lease' = [lease EXCEPT ![t] = 0]
  /\ peers' = [peers EXCEPT ![t] = {}]
  /\ UNCHANGED <<genRow, losses, crashes>>

-----------------------------------------------------------------------------
(* Environment *)

\* The server drops the lock session of a holder that keeps running.
LoseSession(t) ==
  /\ connected[t]
  /\ losses < MaxLosses
  /\ losses' = losses + 1
  /\ connected' = [connected EXCEPT ![t] = FALSE]
  /\ advisory' = IF advisory = t THEN NoTask ELSE advisory
  /\ UNCHANGED <<local, genRow, phase, lease, ended, peers, crashes>>

Residents(r) == {t \in Task : Home[t] = r}

\* The process dies: its coroutines, its local lock and its sessions go with
\* it; the generation row keeps the dead owner.
CrashReplica(r) ==
  LET dead(f, v) == [t \in Task |-> IF t \in Residents(r) THEN v ELSE f[t]] IN
  /\ crashes < MaxCrashes
  /\ \E t \in Residents(r) : phase[t] # "idle"
  /\ crashes' = crashes + 1
  /\ local' = [local EXCEPT ![r] = NoTask]
  /\ advisory' = IF advisory \in Residents(r) THEN NoTask ELSE advisory
  /\ phase' = dead(phase, "idle")
  /\ lease' = dead(lease, 0)
  /\ connected' = dead(connected, FALSE)
  /\ ended' = dead(ended, "none")
  /\ peers' = dead(peers, {})
  /\ UNCHANGED <<genRow, losses>>

-----------------------------------------------------------------------------
(* The serializer on its own: the body of a hold is any number of steps. *)

Leave(t) == \E reachable \in BOOLEAN : ReleaseGeneration(t, reachable)

HoldStep(t) == ClaimGeneration(t) \/ ClaimFails(t) \/ Leave(t) \/ Unlock(t)

SerializerNext ==
  \/ \E t \in Task : TryLock(t) \/ HoldStep(t) \/ LoseSession(t)
  \/ \E r \in Replica : CrashReplica(r)

SerializerSpec == SerializerInit /\ [][SerializerNext]_serializerVars

\* A coroutine that entered hold() keeps being scheduled; nothing forces
\* anyone to enter, and sessions and processes need not fail.
SerializerFairSpec == SerializerSpec /\ \A t \in Task : WF_serializerVars(HoldStep(t))

-----------------------------------------------------------------------------
(* Properties *)

\* Two writers are inside hold() at once only if the server dropped the lock
\* session of one of them, and even then their generations differ: the
\* try-lock excludes, and _claim_generation numbers every hold afresh.
OverlapOnlyAfterLoss ==
  \A t, u \in Holders : t # u => lease[t] # lease[u] /\ ~(connected[t] /\ connected[u])

\* A body during which a newer generation was claimed never leaves hold()
\* cleanly: _release_generation or the unlock raises, so its caller is told.
OvertakenIsTold ==
  \A t \in Task : phase[t] = "released" /\ EndingOf(t) = "clean"
                    => \A g \in peers[t] : g < lease[t]

\* A late release never clears the ownership of the writer that replaced it:
\* active_owner becomes NULL only by the step of the lease it names.
ReleaseOnlyOwn ==
  [][genRow.active_owner # 0 /\ genRow'.active_owner = 0
       => \E t \in Holders : lease[t] = genRow.active_owner /\ phase'[t] = "released"
    ]_serializerVars

\* An account is never blocked for good: every hold gives the advisory lock
\* back, whether its body ends, raises, loses its session or dies.
LockReturned == []<>(advisory = NoTask)
=============================================================================
