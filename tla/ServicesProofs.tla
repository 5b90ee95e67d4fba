---------------------------- MODULE ServicesProofs ----------------------------
(***************************************************************************)
(* The safety of three services that share no state: the circuit breakers  *)
(* of the execution engine, the panel journal of the strategy runner and   *)
(* the signal relay of the indicator worker.                               *)
(* Each part gives the strengthening that is inductive, shows that every   *)
(* action preserves it, and draws the properties from it, for any value of *)
(* the constants.                                                          *)
(***************************************************************************)
EXTENDS CircuitBreaker, PanelJournal, SignalRelay, TLAPS

(* A leaf that names no prover is for Zenon, which does most of them at    *)
(* once, and for SMT where Zenon gives up.                                 *)
USE ZenonT(30), SMTT(60)

(* The circuit breakers.                                                      *)
USE BreakerAssumption

(* What the safety of the breakers rests on.  The deadlines are numbers; the  *)
(* failures a breaker counts do not matter to it.                             *)
Shape ==
  /\ clock \in Nat
  /\ breakers = [r \in Replica |-> [k \in BreakKey |-> breakers[r][k]]]
  /\ \A r \in Replica, k \in BreakKey :
       DOMAIN breakers[r][k] = {"failures", "open_until"} /\ breakers[r][k].open_until \in Nat
  /\ breach = [k \in BreakKey |-> breach[k]]
  /\ \A k \in BreakKey : breach[k].open_until \in Nat
  /\ tripped \in [Replica -> [BreakKey -> Nat]]
  /\ openedAt \in [BreakKey -> Nat]
  /\ serving \in [Strategy -> [Replica -> Stage]]

OpenedInPast == \A k \in BreakKey : openedAt[k] <= clock

\* While a replica must refuse, its memory does, and so would the row it would
\* restore after a restart.
TripHolds ==
  \A r \in Replica, k \in BreakKey : tripped[r][k] > clock =>
    /\ breakers[r][k].open_until >= tripped[r][k]
    /\ <<r, k>> \notin forgets => breach[k].open_until >= tripped[r][k]

BreakerInv == Shape /\ OpenedInPast /\ CooldownBounded /\ TripHolds

LEMMA BreakerInitInv == BreakerInit => BreakerInv
<1> SUFFICES ASSUME BreakerInit PROVE BreakerInv
  OBVIOUS
<1>1. \A r \in Replica, k \in BreakKey : /\ breakers[r][k] = Closed /\ breach[k] = NoBreach
                                         /\ tripped[r][k] = 0
  BY DEF BreakerInit
<1>2. \A k \in BreakKey : openedAt[k] = 0 /\ breach[k] = NoBreach
  BY DEF BreakerInit
<1>3. /\ Closed.open_until = 0 /\ NoBreach.open_until = 0
      /\ DOMAIN Closed = {"failures", "open_until"}
  BY DEF Closed, NoBreach
<1>4. Shape
  <2>1. breakers = [r \in Replica |-> [k \in BreakKey |-> breakers[r][k]]]
    BY DEF BreakerInit
  <2>2. breach = [k \in BreakKey |-> breach[k]]
    BY DEF BreakerInit
  <2>3. serving \in [Strategy -> [Replica -> Stage]]
    BY DEF BreakerInit, NoRequest, Stage
  <2>4. tripped \in [Replica -> [BreakKey -> Nat]] /\ openedAt \in [BreakKey -> Nat] /\ clock \in Nat
    BY DEF BreakerInit
  <2> QED BY <1>1, <1>2, <1>3, <2>1, <2>2, <2>3, <2>4 DEF Shape
<1>5. OpenedInPast /\ CooldownBounded
  BY <1>1, <1>2, <1>3 DEF OpenedInPast, CooldownBounded, BreakerInit
<1>6. TripHolds
  BY <1>1 DEF TripHolds, BreakerInit
<1> QED BY <1>4, <1>5, <1>6 DEF BreakerInv

-------------------------------------------------------------------------------
LEMMA WrittenOrNot ==
  ASSUME NEW old, NEW new, NEW w \in Writes(old, new)
  PROVE  w[1] \in {old, new} /\ (w[2] \/ w[1] = new)
<1>1. w = <<new, FALSE>> \/ w = <<old, TRUE>> \/ w = <<new, TRUE>>
  BY DEF Writes
<1>2. CASE w = <<new, FALSE>>
  BY <1>2
<1>3. CASE w = <<old, TRUE>>
  BY <1>3
<1>4. CASE w = <<new, TRUE>>
  BY <1>4
<1> QED BY <1>1, <1>2, <1>3, <1>4

\* ClearState keeps a row or removes it, and whoever still needs a removed row
\* is in forgets.
LEMMA RowsCleared ==
  ASSUME Shape, NEW r \in Replica, NEW keys \in SUBSET BreakKey, ClearState(r, keys)
  PROVE  /\ breach' = [k \in BreakKey |-> breach'[k]]
         /\ \A k \in BreakKey : \/ breach'[k].open_until = breach[k].open_until
                                \/ k \in keys /\ breach'[k].open_until = 0
         /\ \A q \in Replica, k \in BreakKey :
              /\ k \notin keys => (<<q, k>> \in forgets' <=> <<q, k>> \in forgets)
              /\ k \in keys /\ q # r /\ tripped[q][k] > clock => <<q, k>> \in forgets'
<1>1. PICK w \in Writes(breach, [k \in BreakKey |-> IF k \in keys THEN NoBreach ELSE breach[k]]) :
        /\ breach' = w[1]
        /\ forgets' = (forgets \ ({r} \X keys)) \union Bereft(r, keys)
  BY DEF ClearState
<1>2. \/ breach' = breach
      \/ breach' = [k \in BreakKey |-> IF k \in keys THEN NoBreach ELSE breach[k]]
  BY <1>1, WrittenOrNot
<1>3. NoBreach.open_until = 0
  BY DEF NoBreach
<1>4. breach' = [k \in BreakKey |-> breach'[k]]
  BY <1>2 DEF Shape
<1>5. \A k \in BreakKey : \/ breach'[k].open_until = breach[k].open_until
                          \/ k \in keys /\ breach'[k].open_until = 0
  BY <1>2, <1>3
<1>6. ASSUME NEW q \in Replica, NEW k \in BreakKey
      PROVE  /\ k \notin keys => (<<q, k>> \in forgets' <=> <<q, k>> \in forgets)
             /\ k \in keys /\ q # r /\ tripped[q][k] > clock => <<q, k>> \in forgets'
  BY <1>1 DEF Bereft
<1> QED BY <1>4, <1>5, <1>6

\* A step that closes breakers of r, or removes rows with ClearState, for keys
\* that r need not refuse.
LEMMA BreakersCleared ==
  ASSUME BreakerInv, NEW r \in Replica, NEW keys \in SUBSET BreakKey,
         breakers' = [breakers EXCEPT ![r] = [k \in BreakKey |-> IF k \in keys THEN Closed ELSE @[k]]],
         ClearState(r, keys) \/ UNCHANGED <<breach, forgets>>,
         tripped' \in [Replica -> [BreakKey -> Nat]],
         \A q \in Replica, k \in BreakKey :
           \/ tripped'[q][k] = tripped[q][k] /\ (q = r /\ k \in keys => tripped[q][k] <= clock)
           \/ tripped'[q][k] = 0,
         UNCHANGED <<clock, openedAt>>,
         serving' \in [Strategy -> [Replica -> Stage]]
  PROVE  BreakerInv'
<1> USE DEF BreakerInv
<1>1. Closed.open_until = 0 /\ DOMAIN Closed = {"failures", "open_until"}
  BY DEF Closed
<1>2. \A q \in Replica, k \in BreakKey :
        breakers'[q][k] = IF q = r /\ k \in keys THEN Closed ELSE breakers[q][k]
  BY DEF Shape
<1>3. /\ breach' = [k \in BreakKey |-> breach'[k]]
      /\ \A k \in BreakKey : \/ breach'[k].open_until = breach[k].open_until
                             \/ k \in keys /\ breach'[k].open_until = 0
  BY RowsCleared DEF Shape
<1>4. breakers' = [q \in Replica |-> [k \in BreakKey |-> breakers'[q][k]]]
  BY DEF Shape
<1>5. Shape'
  <2>1. \A q \in Replica, k \in BreakKey :
          /\ DOMAIN breakers'[q][k] = {"failures", "open_until"}
          /\ breakers'[q][k].open_until \in Nat
    BY <1>1, <1>2, SMTT(60) DEF Shape
  <2>2. \A k \in BreakKey : breach'[k].open_until \in Nat
    BY <1>3, SMTT(60) DEF Shape
  <2> QED BY <1>3, <1>4, <2>1, <2>2 DEF Shape
<1>6. OpenedInPast' /\ CooldownBounded'
  BY <1>1, <1>2, <1>3, SMTT(60) DEF OpenedInPast, CooldownBounded, Shape
<1>7. TripHolds'
  <2> SUFFICES ASSUME NEW q \in Replica, NEW k \in BreakKey, tripped'[q][k] > clock
               PROVE  /\ breakers'[q][k].open_until >= tripped'[q][k]
                      /\ <<q, k>> \notin forgets' => breach'[k].open_until >= tripped'[q][k]
    BY DEF TripHolds
  <2>1. clock \in Nat /\ tripped[q][k] \in Nat
    BY SMTT(60) DEF Shape
  <2>2. tripped'[q][k] = tripped[q][k] /\ ~(q = r /\ k \in keys)
    BY <2>1, SMTT(60)
  <2>5. breakers'[q][k] = breakers[q][k] /\ tripped[q][k] > clock
    BY <1>2, <2>2
  <2>3. breakers'[q][k].open_until >= tripped'[q][k]
    BY <2>2, <2>5 DEF TripHolds
  <2>4. ASSUME <<q, k>> \notin forgets' PROVE breach'[k].open_until >= tripped'[q][k]
    <3>1. CASE UNCHANGED <<breach, forgets>>
      BY <2>2, <2>4, <2>5, <3>1 DEF TripHolds
    <3>2. CASE ClearState(r, keys)
      <4>1. k \notin keys /\ <<q, k>> \notin forgets
        BY <2>2, <2>4, <3>2, RowsCleared
      <4> QED BY <1>3, <2>2, <2>5, <4>1 DEF TripHolds
    <3> QED BY <3>1, <3>2
  <2> QED BY <2>3, <2>4
<1> QED BY <1>5, <1>6, <1>7

\* CircuitBreakerManager.open, whichever way the write of the row ends.
LEMMA BreakerOpened ==
  ASSUME BreakerInv, NEW r \in Replica, NEW k \in BreakKey, NEW opened,
         DOMAIN opened = {"failures", "open_until"},
         opened.open_until = clock + Cooldown, PersistOpen(r, k, opened),
         UNCHANGED clock, serving' \in [Strategy -> [Replica -> Stage]]
  PROVE  BreakerInv'
<1> USE DEF BreakerInv
<1> DEFINE row == [open_until |-> opened.open_until, failures |-> Len(opened.failures)]
<1>1. PICK w \in Writes(breach[k], row) :
        /\ breach' = [breach EXCEPT ![k] = w[1]]
        /\ breakers' = [breakers EXCEPT ![r][k] = opened]
        /\ tripped' = [tripped EXCEPT ![r][k] = clock + Cooldown]
        /\ forgets' = IF w[2] THEN forgets \union {<<r, k>>} ELSE forgets \ {<<r, k>>}
        /\ openedAt' = [openedAt EXCEPT ![k] = clock]
  BY DEF PersistOpen
<1>2. row.open_until = clock + Cooldown
  OBVIOUS
<1> HIDE DEF row
<1>3. w[1] \in {breach[k], row} /\ (w[2] \/ w[1] = row)
  BY <1>1, WrittenOrNot, SMTT(60)
<1>4. clock \in Nat /\ clock + Cooldown \in Nat
  BY SMTT(60) DEF Shape
<1>5. \A q \in Replica, x \in BreakKey :
        /\ breakers'[q][x] = IF q = r /\ x = k THEN opened ELSE breakers[q][x]
        /\ tripped'[q][x] = IF q = r /\ x = k THEN clock + Cooldown ELSE tripped[q][x]
  BY <1>1 DEF Shape
<1>6. \A x \in BreakKey :
        /\ breach'[x] = IF x = k THEN w[1] ELSE breach[x]
        /\ openedAt'[x] = IF x = k THEN clock ELSE openedAt[x]
  BY <1>1 DEF Shape
<1>7. /\ breakers' = [q \in Replica |-> [x \in BreakKey |-> breakers'[q][x]]]
      /\ breach' = [x \in BreakKey |-> breach'[x]]
  BY <1>1, ZenonT(60) DEF Shape
<1>8. tripped' \in [Replica -> [BreakKey -> Nat]] /\ openedAt' \in [BreakKey -> Nat]
  BY <1>1, <1>4 DEF Shape
<1>9. w[1].open_until \in Nat /\ w[1].open_until <= clock + Cooldown
  BY <1>2, <1>3, <1>4, SMTT(60) DEF Shape, CooldownBounded, OpenedInPast
<1>10. Shape'
  <2>1. ASSUME NEW q \in Replica, NEW x \in BreakKey
        PROVE  /\ DOMAIN breakers'[q][x] = {"failures", "open_until"}
               /\ breakers'[q][x].open_until \in Nat
    <3>1. CASE q = r /\ x = k
      BY <1>4, <1>5, <3>1
    <3>2. CASE ~(q = r /\ x = k)
      BY <1>5, <3>2, SMTT(60) DEF Shape
    <3> QED BY <3>1, <3>2
  <2>2. \A x \in BreakKey : breach'[x].open_until \in Nat
    BY <1>6, <1>9 DEF Shape
  <2> QED BY <1>4, <1>7, <1>8, <2>1, <2>2 DEF Shape
<1>11. OpenedInPast'
  <2> SUFFICES ASSUME NEW x \in BreakKey PROVE openedAt'[x] <= clock
    BY DEF OpenedInPast
  <2> QED BY <1>4, <1>6, SMTT(60) DEF OpenedInPast
<1>12. CooldownBounded'
  <2> SUFFICES ASSUME NEW x \in BreakKey
               PROVE  /\ breach'[x].open_until <= openedAt'[x] + Cooldown
                      /\ \A q \in Replica : breakers'[q][x].open_until <= openedAt'[x] + Cooldown
    BY DEF CooldownBounded
  <2>1. CASE x # k
    BY <1>5, <1>6, <2>1 DEF CooldownBounded
  <2>2. CASE x = k
    <3>1. breach'[x].open_until <= openedAt'[x] + Cooldown
      BY <1>6, <1>9, <2>2
    <3>2. ASSUME NEW q \in Replica PROVE breakers'[q][x].open_until <= openedAt'[x] + Cooldown
      <4>1. CASE q = r
        BY <1>4, <1>5, <1>6, <2>2, <4>1, SMTT(60)
      <4>2. CASE q # r
        <5>1. /\ breakers[q][k].open_until <= openedAt[k] + Cooldown /\ openedAt[k] <= clock
              /\ openedAt[k] \in Nat /\ breakers[q][k].open_until \in Nat
          BY DEF CooldownBounded, OpenedInPast, Shape
        <5>2. breakers'[q][x] = breakers[q][k] /\ openedAt'[x] = clock
          BY <1>5, <1>6, <2>2, <4>2
        <5> QED BY <1>4, <5>1, <5>2, SMTT(60)
      <4> QED BY <4>1, <4>2
    <3> QED BY <3>1, <3>2
  <2> QED BY <2>1, <2>2
<1>13. TripHolds'
  <2> SUFFICES ASSUME NEW q \in Replica, NEW x \in BreakKey, tripped'[q][x] > clock
               PROVE  /\ breakers'[q][x].open_until >= tripped'[q][x]
                      /\ <<q, x>> \notin forgets' => breach'[x].open_until >= tripped'[q][x]
    BY DEF TripHolds
  <2>1. CASE q = r /\ x = k
    <3>1. breakers'[q][x].open_until = clock + Cooldown /\ tripped'[q][x] = clock + Cooldown
      BY <1>5, <2>1, SMTT(60)
    <3>2. <<q, x>> \notin forgets' => w[1] = row
      BY <1>1, <1>3, <2>1
    <3> QED BY <1>2, <1>4, <1>6, <2>1, <3>1, <3>2, SMTT(60)
  <2>2. CASE ~(q = r /\ x = k)
    <3>1. /\ breakers'[q][x] = breakers[q][x] /\ tripped'[q][x] = tripped[q][x]
          /\ tripped[q][x] > clock
      BY <1>5, <2>2
    <3>2. breakers[q][x].open_until >= tripped[q][x]
      BY <3>1 DEF TripHolds
    <3>3. ASSUME <<q, x>> \notin forgets' PROVE breach'[x].open_until >= tripped[q][x]
      <4>1. <<q, x>> \notin forgets
        BY <1>1, <2>2, <3>3
      <4>2. breach[x].open_until >= tripped[q][x]
        BY <3>1, <4>1 DEF TripHolds
      <4>3. CASE x = k /\ w[1] = row
        <5>1. /\ breakers[q][k].open_until <= openedAt[k] + Cooldown /\ openedAt[k] <= clock
              /\ openedAt[k] \in Nat /\ breakers[q][k].open_until \in Nat /\ tripped[q][k] \in Nat
          BY SMTT(60) DEF CooldownBounded, OpenedInPast, Shape
        <5>2. tripped[q][k] <= clock + Cooldown
          BY <1>4, <3>2, <4>3, <5>1, SMTT(60)
        <5> QED BY <1>2, <1>6, <4>3, <5>1, <5>2, <1>4
      <4> QED BY <1>3, <1>6, <4>2, <4>3
    <3> QED BY <3>1, <3>2, <3>3
  <2> QED BY <2>1, <2>2
<1> QED BY <1>10, <1>11, <1>12, <1>13

LEMMA FailureRecorded ==
  ASSUME BreakerInv, NEW r \in Replica, NEW k \in BreakKey, RecordFailure(r, k),
         UNCHANGED clock, serving' \in [Strategy -> [Replica -> Stage]]
  PROVE  BreakerInv'
<1> DEFINE b == CountFailure(breakers[r][k])
<1>1. /\ DOMAIN b = {"failures", "open_until"} /\ b.open_until = breakers[r][k].open_until
  BY SMTT(60) DEF CountFailure, BreakerInv, Shape
<1>2. RecordFailure(r, k) = IF Len(b.failures) >= Threshold
                            THEN PersistOpen(r, k, OpenBreaker(b))
                            ELSE /\ breakers' = [breakers EXCEPT ![r][k] = b]
                                 /\ UNCHANGED <<breach, tripped, forgets, openedAt, breakerFaults>>
  BY DEF RecordFailure
<1> HIDE DEF b
<1>3. /\ DOMAIN OpenBreaker(b) = {"failures", "open_until"}
      /\ OpenBreaker(b).open_until = clock + Cooldown
  BY <1>1 DEF OpenBreaker
<1>4. CASE PersistOpen(r, k, OpenBreaker(b))
  BY <1>3, <1>4, BreakerOpened
<1>5. CASE /\ breakers' = [breakers EXCEPT ![r][k] = b]
           /\ UNCHANGED <<breach, tripped, forgets, openedAt>>
  <2> USE DEF BreakerInv
  <2>5. \A q \in Replica, x \in BreakKey :
          breakers'[q][x] = IF q = r /\ x = k THEN b ELSE breakers[q][x]
    BY <1>5 DEF Shape
  <2>6. breakers' = [q \in Replica |-> [x \in BreakKey |-> breakers'[q][x]]]
    BY <1>5 DEF Shape
  <2>7. \A q \in Replica, x \in BreakKey :
          /\ breakers'[q][x].open_until = breakers[q][x].open_until
          /\ DOMAIN breakers'[q][x] = {"failures", "open_until"}
    BY <1>1, <2>5, ZenonT(60) DEF Shape
  <2>1. /\ breakers' = [q \in Replica |-> [x \in BreakKey |-> breakers'[q][x]]]
        /\ \A q \in Replica, x \in BreakKey :
             /\ breakers'[q][x].open_until = breakers[q][x].open_until
             /\ DOMAIN breakers'[q][x] = {"failures", "open_until"}
    BY <2>6, <2>7
  <2>2. Shape'
    BY <1>5, <2>1 DEF Shape
  <2>3. OpenedInPast' /\ CooldownBounded'
    BY <1>5, <2>1 DEF OpenedInPast, CooldownBounded
  <2>4. TripHolds'
    BY <1>5, <2>1 DEF TripHolds
  <2> QED BY <2>2, <2>3, <2>4
<1> QED BY <1>2, <1>4, <1>5

LEMMA ClosedNotTripped ==
  ASSUME BreakerInv, NEW r \in Replica, NEW k \in BreakKey, ~IsOpen(breakers[r][k])
  PROVE  tripped[r][k] <= clock
<1>1. breakers[r][k].open_until \in Nat /\ tripped[r][k] \in Nat /\ clock \in Nat
  BY SMTT(60) DEF BreakerInv, Shape
<1>2. tripped[r][k] > clock => breakers[r][k].open_until >= tripped[r][k]
  BY DEF BreakerInv, TripHolds
<1> QED BY <1>1, <1>2 DEF IsOpen

LEMMA BreakerInvNext == BreakerInv /\ [BreakerNext]_breakerVars => BreakerInv'
<1> SUFFICES ASSUME BreakerInv, [BreakerNext]_breakerVars PROVE BreakerInv'
  OBVIOUS
<1>0. Shape /\ BrokerKey \in BreakKey /\ Strategy \subseteq BreakKey
  BY DEF BreakerInv, BreakKey
<1>s. \A s \in Strategy, r \in Replica, x \in Stage :
        [serving EXCEPT ![s][r] = x] \in [Strategy -> [Replica -> Stage]]
  BY <1>0 DEF Shape
<1>1. ASSUME NEW r \in Replica, NEW s \in Strategy, NEW reduce_only \in BOOLEAN,
             CheckExecution(r, s, reduce_only)
      PROVE  BreakerInv'
  <2> DEFINE halted == IsOpen(breakers[r][BrokerKey])
             asked == {BrokerKey} \union (IF halted THEN {} ELSE {s})
             lapsed == {k \in asked : Lapsed(breakers[r][k])}
  <2>1. /\ breakers' = [breakers EXCEPT ![r] = [k \in BreakKey |-> IF k \in lapsed THEN Closed ELSE @[k]]]
        /\ ClearState(r, lapsed) \/ UNCHANGED <<breach, forgets>>
        /\ UNCHANGED <<clock, tripped, openedAt>>
    BY <1>1 DEF CheckExecution
  <2>2. lapsed \in SUBSET BreakKey
    BY <1>0
  <2>3. \A k \in lapsed : tripped[r][k] <= clock
    <3>1. \A k \in lapsed : k \in BreakKey /\ ~IsOpen(breakers[r][k])
      BY <2>2 DEF Lapsed
    <3> QED BY <3>1, ClosedNotTripped
  <2>4. serving' \in [Strategy -> [Replica -> Stage]]
    BY <1>1, <1>s, SMTT(60) DEF CheckExecution, Stage
  <2> HIDE DEF lapsed
  <2>5. tripped' \in [Replica -> [BreakKey -> Nat]]
    BY <1>0, <2>1 DEF Shape
  <2> QED BY <2>1, <2>2, <2>3, <2>4, <2>5, BreakersCleared
<1>2. ASSUME NEW r \in Replica, NEW s \in Strategy, NEW k \in {s, BrokerKey},
             Fails(r, s, k) \/ FailsUnexpectedly(r, s, k)
      PROVE  BreakerInv'
  <2>1. k \in BreakKey
    BY <1>0
  <2>2. RecordFailure(r, k) /\ UNCHANGED clock
    BY <1>2 DEF Fails, FailsUnexpectedly
  <2>3. serving' \in [Strategy -> [Replica -> Stage]]
    BY <1>2, <1>s, SMTT(60) DEF Fails, FailsUnexpectedly, Stage
  <2> QED BY <2>1, <2>2, <2>3, FailureRecorded
<1>3. ASSUME NEW r \in Replica, NEW s \in Strategy, RecordSuccess(r, s) PROVE BreakerInv'
  <2> DEFINE keys == {s, BrokerKey}
  <2>1. /\ breakers' = [breakers EXCEPT ![r] = [k \in BreakKey |-> IF k \in keys THEN Closed ELSE @[k]]]
        /\ ClearState(r, keys)
        /\ tripped' = [tripped EXCEPT ![r] = [k \in BreakKey |-> IF k \in keys THEN 0 ELSE @[k]]]
        /\ UNCHANGED <<clock, openedAt>>
    BY <1>3 DEF RecordSuccess
  <2>2. keys \in SUBSET BreakKey
    BY <1>0
  <2>3. serving' \in [Strategy -> [Replica -> Stage]]
    BY <1>3, <1>s DEF RecordSuccess, Stage
  <2> HIDE DEF keys
  <2>4. tripped' \in [Replica -> [BreakKey -> Nat]]
    BY <1>0, <2>1 DEF Shape
  <2>5. \A q \in Replica, k \in BreakKey :
          tripped'[q][k] = IF q = r /\ k \in keys THEN 0 ELSE tripped[q][k]
    BY <1>0, <2>1 DEF Shape
  <2> QED BY <2>1, <2>2, <2>3, <2>4, <2>5, BreakersCleared
<1>4. ASSUME NEW r \in Replica, NEW s \in Strategy, EndsUnrecorded(r, s) PROVE BreakerInv'
  <2>1. serving' \in [Strategy -> [Replica -> Stage]]
    BY <1>4, <1>s DEF EndsUnrecorded, Stage
  <2>2. UNCHANGED <<clock, breakers, breach, tripped, forgets, openedAt>>
    BY <1>4 DEF EndsUnrecorded
  <2> QED BY <2>1, <2>2 DEF BreakerInv, Shape, OpenedInPast, CooldownBounded, TripHolds
<1>5. ASSUME NEW r \in Replica, NEW k \in BreakKey, ReconcileOpens(r, k) PROVE BreakerInv'
  <2>1. /\ DOMAIN OpenBreaker(breakers[r][k]) = {"failures", "open_until"}
        /\ OpenBreaker(breakers[r][k]).open_until = clock + Cooldown
    BY <1>0 DEF OpenBreaker, Shape
  <2>2. PersistOpen(r, k, OpenBreaker(breakers[r][k])) /\ UNCHANGED <<clock, serving>>
    BY <1>5 DEF ReconcileOpens
  <2>3. serving' \in [Strategy -> [Replica -> Stage]]
    BY <1>0, <2>2 DEF Shape
  <2> QED BY <2>1, <2>2, <2>3, BreakerOpened
<1>6. ASSUME NEW r \in Replica, RestartEngine(r) PROVE BreakerInv'
  <2> USE DEF BreakerInv
  <2>1. PICK loaded \in BOOLEAN :
          /\ breakers' = [breakers EXCEPT ![r] =
               [k \in BreakKey |-> IF loaded THEN RestoreBreaker(k) ELSE Closed]]
          /\ tripped' = [tripped EXCEPT ![r] = [k \in BreakKey |->
               IF ~loaded \/ <<r, k>> \in forgets THEN 0 ELSE @[k]]]
    BY <1>6 DEF RestartEngine
  <2>2. /\ forgets' = forgets \ ({r} \X BreakKey)
        /\ UNCHANGED <<clock, breach, openedAt>>
    BY <1>6 DEF RestartEngine
  <2>3. \A k \in BreakKey :
          /\ DOMAIN RestoreBreaker(k) = {"failures", "open_until"}
          /\ RestoreBreaker(k).open_until =
               IF breach[k].open_until > clock THEN breach[k].open_until ELSE 0
    BY DEF RestoreBreaker, Closed
  <2>4. Closed.open_until = 0 /\ DOMAIN Closed = {"failures", "open_until"}
    BY DEF Closed
  <2>5. \A q \in Replica, k \in BreakKey :
          /\ q # r => breakers'[q][k] = breakers[q][k] /\ tripped'[q][k] = tripped[q][k]
          /\ q = r => /\ breakers'[q][k] = IF loaded THEN RestoreBreaker(k) ELSE Closed
                      /\ tripped'[q][k] = IF ~loaded \/ <<r, k>> \in forgets
                                          THEN 0 ELSE tripped[q][k]
    BY <1>0, <2>1 DEF Shape
  <2>6. /\ breakers' = [q \in Replica |-> [k \in BreakKey |-> breakers'[q][k]]]
        /\ tripped' \in [Replica -> [BreakKey -> Nat]]
    BY <1>0, <2>1 DEF Shape
  <2>7. ASSUME NEW q \in Replica, NEW k \in BreakKey
        PROVE  /\ DOMAIN breakers'[q][k] = {"failures", "open_until"}
               /\ breakers'[q][k].open_until \in Nat
               /\ \/ breakers'[q][k].open_until \in {0, breach[k].open_until}
                  \/ breakers'[q][k].open_until = breakers[q][k].open_until
    <3>1. CASE q # r
      <4>1. breakers'[q][k] = breakers[q][k]
        BY <2>5, <3>1
      <4>2. DOMAIN breakers[q][k] = {"failures", "open_until"} /\ breakers[q][k].open_until \in Nat
        BY <1>0 DEF Shape
      <4> QED BY <4>1, <4>2
    <3>2. CASE q = r /\ loaded
      <4>1. breakers'[q][k] = RestoreBreaker(k) /\ breach[k].open_until \in Nat
        BY <1>0, <2>5, <3>2 DEF Shape
      <4> QED BY <2>3, <4>1, SMTT(60)
    <3>3. CASE q = r /\ ~loaded
      <4>1. breakers'[q][k] = Closed
        BY <2>5, <3>3
      <4> QED BY <2>4, <4>1, SMTT(60)
    <3> QED BY <3>1, <3>2, <3>3
  <2>8. serving' \in [Strategy -> [Replica -> Stage]]
    BY <1>0, <1>6 DEF RestartEngine, Shape, Stage
  <2>9. Shape'
    BY <1>0, <2>2, <2>6, <2>7, <2>8 DEF Shape
  <2>10. OpenedInPast' /\ CooldownBounded'
    <3>1. OpenedInPast'
      BY <2>2 DEF OpenedInPast
    <3>2. ASSUME NEW q \in Replica, NEW k \in BreakKey
          PROVE  breakers'[q][k].open_until <= openedAt[k] + Cooldown
      <4>1. /\ breach[k].open_until <= openedAt[k] + Cooldown
            /\ breakers[q][k].open_until <= openedAt[k] + Cooldown
            /\ openedAt[k] + Cooldown \in Nat
        BY <1>0, SMTT(60) DEF CooldownBounded, Shape
      <4> QED BY <2>7, <4>1, SMTT(60)
    <3> QED BY <2>2, <3>1, <3>2 DEF CooldownBounded
  <2>11. TripHolds'
    <3> SUFFICES ASSUME NEW q \in Replica, NEW k \in BreakKey, tripped'[q][k] > clock
                 PROVE  /\ breakers'[q][k].open_until >= tripped'[q][k]
                        /\ <<q, k>> \notin forgets' => breach[k].open_until >= tripped'[q][k]
      BY <2>2 DEF TripHolds
    <3>1. CASE q # r
      <4>1. <<q, k>> \in forgets' <=> <<q, k>> \in forgets
        BY <2>2, <3>1
      <4> QED BY <2>5, <3>1, <4>1 DEF TripHolds
    <3>2. CASE q = r
      <4>1. loaded /\ <<r, k>> \notin forgets /\ tripped'[q][k] = tripped[q][k]
        BY <1>0, <2>5, <3>2, SMTT(60) DEF Shape
      <4>2. breach[k].open_until >= tripped[q][k]
        BY <3>2, <4>1 DEF TripHolds
      <4>3. breach[k].open_until > clock
        BY <1>0, <3>2, <4>1, <4>2, SMTT(60) DEF Shape
      <4>4. breakers'[q][k].open_until = breach[k].open_until
        BY <2>3, <2>5, <3>2, <4>1, <4>3
      <4> QED BY <4>1, <4>2, <4>4
    <3> QED BY <3>1, <3>2
  <2> QED BY <2>9, <2>10, <2>11
<1>7. ASSUME ClockAdvances PROVE BreakerInv'
  <2>1. /\ clock' = clock + 1 /\ clock \in Nat
        /\ UNCHANGED <<breakers, breach, serving, tripped, forgets, openedAt>>
    BY <1>0, <1>7 DEF ClockAdvances, Shape
  <2>2. Shape' /\ CooldownBounded'
    BY <1>0, <2>1, SMTT(60) DEF Shape, CooldownBounded, BreakerInv
  <2>3. OpenedInPast'
    BY <1>0, <2>1, SMTT(60) DEF OpenedInPast, BreakerInv, Shape
  <2>4. TripHolds'
    <3> SUFFICES ASSUME NEW q \in Replica, NEW k \in BreakKey, tripped[q][k] > clock + 1
                 PROVE  /\ breakers[q][k].open_until >= tripped[q][k]
                        /\ <<q, k>> \notin forgets => breach[k].open_until >= tripped[q][k]
      BY <2>1 DEF TripHolds
    <3>1. tripped[q][k] > clock
      BY <1>0, <2>1, SMTT(60) DEF Shape
    <3> QED BY <3>1 DEF BreakerInv, TripHolds
  <2> QED BY <2>2, <2>3, <2>4 DEF BreakerInv
<1>8. CASE UNCHANGED breakerVars
  BY <1>8 DEF breakerVars, BreakerInv, Shape, OpenedInPast, CooldownBounded, TripHolds
<1> QED BY <1>1, <1>2, <1>3, <1>4, <1>5, <1>6, <1>7, <1>8 DEF BreakerNext

(* The memory of a replica that must refuse does, and so does the persisted   *)
(* breach it restores after a restart; no deadline lies further ahead than    *)
(* one cooldown.                                                              *)
THEOREM BreakerInvariant == BreakerSpec => []BreakerInv
BY BreakerInitInv, BreakerInvNext, PTL DEF BreakerSpec

(* No breaker, in memory or in its row, refuses for longer than one cooldown   *)
(* after it was last opened, for any number of replicas, strategies, failures  *)
(* and restarts and any threshold, window and cooldown.                        *)
THEOREM CooldownNeverExtended == BreakerSpec => []CooldownBounded
BY BreakerInvariant, PTL DEF BreakerInv

(* A tripped breaker admits nothing it must refuse until its cooldown is over, *)
(* across restarts and the failed database calls recorded in forgets.          *)
THEOREM TrippedRefuses == BreakerSpec => NoAdmissionWhileTripped
<1> DEFINE Admits == \A s \in Strategy, r \in Replica :
                       serving[s][r] = "idle" /\ serving'[s][r] \in {"entry", "exit"} =>
                         /\ tripped[r][BrokerKey] <= clock
                         /\ serving'[s][r] = "entry" => tripped[r][s] <= clock
<1>1. BreakerInv /\ [BreakerNext]_breakerVars => [Admits]_breakerVars
  <2> SUFFICES ASSUME BreakerInv, BreakerNext, NEW s \in Strategy, NEW r \in Replica,
                      serving[s][r] = "idle", serving'[s][r] \in {"entry", "exit"}
               PROVE  /\ tripped[r][BrokerKey] <= clock
                      /\ serving'[s][r] = "entry" => tripped[r][s] <= clock
    OBVIOUS
  <2>0. Shape /\ BrokerKey \in BreakKey /\ s \in BreakKey
    BY DEF BreakerInv, BreakKey
  <2>1. ASSUME NEW q \in Replica, NEW z \in Strategy, NEW reduce_only \in BOOLEAN,
               CheckExecution(q, z, reduce_only)
        PROVE  /\ tripped[r][BrokerKey] <= clock
               /\ serving'[s][r] = "entry" => tripped[r][s] <= clock
    <3>1. z = s /\ q = r
      BY <2>0, <2>1, SMTT(60) DEF CheckExecution, Shape
    <3>2. /\ ~IsOpen(breakers[r][BrokerKey])
          /\ serving'[s][r] = "entry" => ~IsOpen(breakers[r][s])
      BY <2>0, <2>1, <3>1, SMTT(60) DEF CheckExecution, Shape
    <3> QED BY <2>0, <3>2, ClosedNotTripped
  <2>2. ASSUME NEW q \in Replica, NEW z \in Strategy, NEW k \in {z, BrokerKey},
               Fails(q, z, k) \/ FailsUnexpectedly(q, z, k)
        PROVE  FALSE
    <3>1. \E x \in {"idle", "raised"} : serving' = [serving EXCEPT ![z][q] = x]
      BY <2>2 DEF Fails, FailsUnexpectedly
    <3> QED BY <2>0, <3>1, SMTT(60) DEF Shape
  <2>3. ASSUME NEW q \in Replica, NEW z \in Strategy, RecordSuccess(q, z) \/ EndsUnrecorded(q, z)
        PROVE  FALSE
    <3>1. serving' = [serving EXCEPT ![z][q] = "idle"]
      BY <2>3 DEF RecordSuccess, EndsUnrecorded
    <3> QED BY <2>0, <3>1 DEF Shape
  <2>4. ASSUME NEW q \in Replica, RestartEngine(q) PROVE FALSE
    BY <2>0, <2>4 DEF RestartEngine, Shape
  <2>5. ASSUME UNCHANGED serving PROVE FALSE
    BY <2>5
  <2> QED BY <2>1, <2>2, <2>3, <2>4, <2>5 DEF BreakerNext, ReconcileOpens, ClockAdvances
<1> QED BY <1>1, BreakerInvariant, PTL DEF BreakerSpec, NoAdmissionWhileTripped

HIDE BreakerAssumption

-----------------------------------------------------------------------------
(* The panel journal.                                                         *)
USE PanelAssumption

LEMMA PanelTypeInit == PanelInit => PanelTypeOK
<1> SUFFICES ASSUME PanelInit PROVE PanelTypeOK
  OBVIOUS
<1>1. panel \in [Input -> Terminal \cup {"none", "prepared"}] /\ preparedAt \in [Input -> Nat]
  BY DEF PanelInit
<1>2. state \in Seq(Input) /\ core \in Seq(Input)
  BY DEF PanelInit
<1>3. Free \in [at : DutyPoint, input : Input \cup {NoInput}] /\ Free.at = "free"
  BY DEF Free, DutyPoint
<1>4. /\ duty \in [Thread -> [at : DutyPoint, input : Input \cup {NoInput}]]
      /\ \A t \in Thread : duty[t].at # "free" => duty[t].input \in Input
  BY <1>3 DEF PanelInit
<1>5. panelFaults \in 0..MaxPanelFaults /\ submissions \in 0..MaxSubmissions
  BY DEF PanelInit
<1>6. registered \subseteq Input /\ closed \subseteq Session /\ mustExit \in BOOLEAN
  BY DEF PanelInit
<1> QED BY <1>1, <1>2, <1>4, <1>5, <1>6 DEF PanelTypeOK

\* A thread that moves on keeps its input, and a thread that is done has none.
LEMMA DutyTyped ==
  ASSUME NEW t \in Thread, PanelTypeOK,
         \/ Done(t)
         \/ \E at \in DutyPoint, i \in Input : Go(t, at, i)
  PROVE  /\ duty' \in [Thread -> [at : DutyPoint, input : Input \cup {NoInput}]]
         /\ \A u \in Thread : duty'[u].at # "free" => duty'[u].input \in Input
<1>1. ASSUME NEW at \in DutyPoint, NEW i \in Input, Go(t, at, i)
      PROVE  /\ duty' \in [Thread -> [at : DutyPoint, input : Input \cup {NoInput}]]
             /\ \A u \in Thread : duty'[u].at # "free" => duty'[u].input \in Input
  BY <1>1 DEF PanelTypeOK, Go
<1>2. Free \in [at : DutyPoint, input : Input \cup {NoInput}] /\ Free.at = "free"
  BY DEF Free, DutyPoint
<1>3. CASE Done(t)
  BY <1>2, <1>3 DEF PanelTypeOK, Done
<1> QED BY <1>1, <1>3

LEMMA PanelTypeNext == PanelTypeOK /\ [PanelNext]_panelVars => PanelTypeOK'
<1> SUFFICES ASSUME PanelTypeOK, [PanelNext]_panelVars PROVE PanelTypeOK'
  OBVIOUS
<1> USE DEF PanelTypeOK
<1>0. {Main, Caller} \subseteq Thread
  BY DEF Thread
<1>1. ASSUME NEW i \in Input, Register(i) PROVE PanelTypeOK'
  BY <1>1 DEF Register
<1>2. ASSUME NEW i \in Input, SubmitPanel(i) PROVE PanelTypeOK'
  <2>1. \E at \in DutyPoint, j \in Input : Go(Caller, at, j)
    BY <1>2 DEF SubmitPanel, DutyPoint
  <2>2. submissions' \in 0..MaxSubmissions
    BY <1>2, SMTT(60) DEF SubmitPanel
  <2> QED BY <1>0, <1>2, <2>1, <2>2, DutyTyped DEF SubmitPanel
<1>3. ASSUME NEW d \in Session, SessionCloses(d) PROVE PanelTypeOK'
  BY <1>3 DEF SessionCloses
<1>4. ASSUME Poll PROVE PanelTypeOK'
  <2>1. \E at \in DutyPoint, j \in Input : Go(Main, at, j)
    BY <1>4 DEF Poll, DutyPoint
  <2> QED BY <1>0, <1>4, <2>1, DutyTyped DEF Poll
<1>5. ASSUME Restart PROVE PanelTypeOK'
  <2>1. Outstanding => (CHOOSE i \in Input : panel[i] = "prepared") \in Input
    BY DEF Outstanding
  <2>2. /\ duty' \in [Thread -> [at : DutyPoint, input : Input \cup {NoInput}]]
        /\ \A u \in Thread : duty'[u].at # "free" => duty'[u].input \in Input
    BY <1>5, <2>1 DEF Restart, Free, DutyPoint
  <2>3. panelFaults' \in 0..MaxPanelFaults
    BY <1>5, SMTT(60) DEF Restart
  <2> QED BY <1>5, <2>2, <2>3 DEF Restart
<1>6. ASSUME NEW t \in Thread, Classify(t) PROVE PanelTypeOK'
  <2>1. \E at \in DutyPoint, j \in Input : Go(t, at, j)
    BY <1>6 DEF Classify, DutyPoint
  <2> QED BY <1>6, <2>1, DutyTyped DEF Classify
<1>7. ASSUME NEW t \in Thread, Dispose(t) PROVE PanelTypeOK'
  <2>1. Done(t) /\ mustExit' \in BOOLEAN
    BY <1>7 DEF Dispose, Raise
  <2>2. panel' \in [Input -> Terminal \cup {"none", "prepared"}]
    BY <1>7 DEF Dispose, Disposition, Terminal
  <2> QED BY <1>7, <2>1, <2>2, DutyTyped DEF Dispose
<1>8. ASSUME NEW t \in Thread, Prepare(t) PROVE PanelTypeOK'
  <2>1. \/ Done(t)
        \/ \E at \in DutyPoint, j \in Input : Go(t, at, j)
    BY <1>8 DEF Prepare, Raise, DutyPoint
  <2>2. mustExit' \in BOOLEAN
    BY <1>8 DEF Prepare, Raise
  <2>3. panel' \in [Input -> Terminal \cup {"none", "prepared"}]
    BY <1>8 DEF Prepare, Terminal
  <2>4. preparedAt' \in [Input -> Nat]
    BY <1>8, SMTT(60) DEF Prepare
  <2> QED BY <1>8, <2>1, <2>2, <2>3, <2>4, DutyTyped DEF Prepare
<1>9. ASSUME NEW t \in Thread, Process(t) PROVE PanelTypeOK'
  <2>1. Done(t) /\ mustExit' \in BOOLEAN
    BY <1>9 DEF Process, Raise
  <2>2. panel' \in [Input -> Terminal \cup {"none", "prepared"}]
    BY <1>9, ZenonT(60) DEF Process, Terminal
  <2>3. Append(core, duty[t].input) \in Seq(Input)
    BY <1>9, SMTT(60) DEF Process
  <2>5. state' \in Seq(Input) /\ core' \in Seq(Input)
    BY <1>9, <2>3, ZenonT(60) DEF Process
  <2>4. panelFaults' \in 0..MaxPanelFaults
    BY <1>9, SMTT(60) DEF Process
  <2> QED BY <1>9, <2>1, <2>2, <2>4, <2>5, DutyTyped DEF Process
<1>10. CASE UNCHANGED panelVars
  BY <1>10 DEF panelVars
<1> QED BY <1>1, <1>2, <1>3, <1>4, <1>5, <1>6, <1>7, <1>8, <1>9, <1>10
        DEF PanelNext, ThreadStep

(* The panel journal is well typed for any inputs, sessions and cutoffs, and  *)
(* any number of crashes and submissions.                                     *)
THEOREM PanelTypeSafe == PanelSpec => []PanelTypeOK
BY PanelTypeInit, PanelTypeNext, PTL DEF PanelSpec

-----------------------------------------------------------------------------
(* The strengthening: prepare_panel leaves at most one decision outstanding,  *)
(* and everything completed is older than it.                                 *)
OneOutstanding ==
  \A i, j \in Input : panel[i] = "prepared" /\ panel[j] = "prepared" => i = j

OutstandingIsNewest ==
  \A i, j \in Input : panel[i] = "prepared" /\ panel[j] = "completed"
                        => CutoffOf[j] < CutoffOf[i]

PanelInv ==
  /\ PanelTypeOK
  /\ SessionPinnedOnce
  /\ OneOutstanding
  /\ OutstandingIsNewest
  /\ ModelIsCompletedPanels

\* A step that prepares and completes nothing, though it may end a decision.
LEMMA DecisionEnds ==
  ASSUME PanelInv, UNCHANGED <<state, order>>,
         panel' \in [Input -> Terminal \cup {"none", "prepared"}],
         \A i \in Input : \/ panel'[i] = panel[i]
                          \/ panel[i] # "completed" /\ panel'[i] \notin {"prepared", "completed"}
  PROVE  /\ SessionPinnedOnce' /\ OneOutstanding' /\ OutstandingIsNewest'
         /\ ModelIsCompletedPanels'
<1>1. \A i \in Input : /\ panel'[i] = "prepared" => panel[i] = "prepared"
                       /\ panel'[i] = "completed" <=> panel[i] = "completed"
  OBVIOUS
<1>2. SessionPinnedOnce'
  <2> SUFFICES ASSUME NEW i \in Input, NEW j \in Input, SessionOf[i] = SessionOf[j],
                      panel'[i] \in {"prepared", "completed"},
                      panel'[j] \in {"prepared", "completed"}
               PROVE  i = j
    BY DEF SessionPinnedOnce
  <2> QED BY <1>1, SMTT(60) DEF PanelInv, SessionPinnedOnce
<1>3. OneOutstanding' /\ OutstandingIsNewest'
  BY <1>1 DEF PanelInv, OneOutstanding, OutstandingIsNewest
<1>4. ModelIsCompletedPanels'
  BY <1>1, SMTT(60) DEF PanelInv, ModelIsCompletedPanels
<1> QED BY <1>2, <1>3, <1>4

\* prepare_panel accepts an input only when nothing is outstanding, nothing
\* completed is newer and no input of its session was accepted before.
LEMMA PanelPrepared ==
  ASSUME PanelInv, UNCHANGED <<state, order>>, NEW i \in Input,
         panel[i] = "none", ~Superseded(i), ~Pinned(i), ~Outstanding,
         panel' = [panel EXCEPT ![i] = "prepared"]
  PROVE  /\ SessionPinnedOnce' /\ OneOutstanding' /\ OutstandingIsNewest'
         /\ ModelIsCompletedPanels'
<1>1. /\ panel'[i] = "prepared"
      /\ \A j \in Input : j # i => panel'[j] = panel[j] /\ panel[j] # "prepared"
  BY DEF Outstanding, PanelInv, PanelTypeOK
<1>2. \A j \in Input : panel[j] = "completed" => SessionOf[j] # SessionOf[i]
  BY DEF Pinned
<1>3. \A j \in Input : panel[j] = "completed" => CutoffOf[j] < CutoffOf[i]
  BY <1>2, SMTT(60) DEF Superseded
<1>4. SessionPinnedOnce'
  <2> SUFFICES ASSUME NEW j \in Input, NEW k \in Input, SessionOf[j] = SessionOf[k],
                      panel'[j] \in {"prepared", "completed"},
                      panel'[k] \in {"prepared", "completed"}
               PROVE  j = k
    BY DEF SessionPinnedOnce
  <2> QED BY <1>1, <1>2, SMTT(60) DEF PanelInv, SessionPinnedOnce
<1>5. OneOutstanding' /\ OutstandingIsNewest'
  BY <1>1, <1>3 DEF OneOutstanding, OutstandingIsNewest
<1>6. \A j \in Input : panel'[j] = "completed" <=> panel[j] = "completed"
  BY <1>1
<1>7. ModelIsCompletedPanels'
  BY <1>6, SMTT(60) DEF PanelInv, ModelIsCompletedPanels
<1> QED BY <1>4, <1>5, <1>7

\* _process_prepared evaluates the outstanding input into the model.
LEMMA PanelCompleted ==
  ASSUME PanelInv, NEW i \in Input, panel[i] = "prepared",
         state' = Append(state, i), order' = Append(order, i),
         panel' = [panel EXCEPT ![i] = "completed"]
  PROVE  /\ SessionPinnedOnce' /\ OneOutstanding' /\ OutstandingIsNewest'
         /\ ModelIsCompletedPanels'
<1> USE DEF PanelInv
<1>1. /\ panel'[i] = "completed"
      /\ \A j \in Input : j # i => panel'[j] = panel[j] /\ panel[j] # "prepared"
  BY DEF OneOutstanding, PanelTypeOK
<1>2. SessionPinnedOnce'
  <2> SUFFICES ASSUME NEW j \in Input, NEW k \in Input, SessionOf[j] = SessionOf[k],
                      panel'[j] \in {"prepared", "completed"},
                      panel'[k] \in {"prepared", "completed"}
               PROVE  j = k
    BY DEF SessionPinnedOnce
  <2> QED BY <1>1, SMTT(60) DEF SessionPinnedOnce
<1>3. OneOutstanding' /\ OutstandingIsNewest'
  BY <1>1 DEF OneOutstanding, OutstandingIsNewest
<1>4. /\ state \in Seq(Input) /\ Len(state) \in Nat
      /\ DOMAIN state = 1..Len(state) /\ DOMAIN state' = 1..Len(state) + 1
      /\ \A n \in 1..Len(state) : state'[n] = state[n]
      /\ state'[Len(state) + 1] = i
  BY SMTT(60) DEF PanelTypeOK
<1>5. \A n \in 1..Len(state) : panel[state[n]] = "completed"
  BY <1>4, SMTT(60) DEF ModelIsCompletedPanels
<1>6. \A m, n \in DOMAIN state' : m < n => CutoffOf[state'[m]] < CutoffOf[state'[n]]
  <2> SUFFICES ASSUME NEW m \in 1..Len(state) + 1, NEW n \in 1..Len(state) + 1, m < n
               PROVE  CutoffOf[state'[m]] < CutoffOf[state'[n]]
    BY <1>4
  <2>1. m \in 1..Len(state) /\ state[m] \in Input
    BY <1>4, SMTT(60)
  <2>2. CASE n \in 1..Len(state)
    BY <1>4, <2>1, <2>2, ZenonT(60) DEF ModelIsCompletedPanels
  <2>3. CASE n = Len(state) + 1
    BY <1>4, <1>5, <2>1, <2>3 DEF OutstandingIsNewest
  <2>4. Len(state) \in Nat
    BY <1>4
  <2>5. \A k \in Nat : \A p \in 1..k + 1 : p \in 1..k \/ p = k + 1
    OBVIOUS
  <2>6. n \in 1..Len(state) \/ n = Len(state) + 1
    BY <2>4, <2>5, ZenonT(60)
  <2> QED BY <2>2, <2>3, <2>6, ZenonT(60)
<1>7. \A j \in Input : panel'[j] = "completed" <=> \E n \in DOMAIN state' : state'[n] = j
  <2> SUFFICES ASSUME NEW j \in Input
               PROVE  panel'[j] = "completed" <=> \E n \in 1..Len(state) + 1 : state'[n] = j
    BY <1>4, ZenonT(60)
  <2>1. CASE j = i
    BY <1>1, <1>4, <2>1, SMTT(60)
  <2>2. CASE j # i
    <3>1. panel'[j] = "completed" <=> \E n \in DOMAIN state : state[n] = j
      BY <1>1, <2>2 DEF ModelIsCompletedPanels
    <3>2. ASSUME NEW n \in DOMAIN state, state[n] = j
          PROVE  \E m \in 1..Len(state) + 1 : state'[m] = j
      <4>1. n \in 1..Len(state) /\ Len(state) \in Nat
        BY <1>4
      <4>2. n \in 1..Len(state) + 1
        BY <4>1
      <4>3. state'[n] = j
        BY <1>4, <3>2, <4>1
      <4> QED BY <4>2, <4>3
    <3>3. ASSUME NEW n \in 1..Len(state) + 1, state'[n] = j
          PROVE  \E m \in DOMAIN state : state[m] = j
      <4>1. Len(state) \in Nat /\ n # Len(state) + 1
        BY <1>4, <2>2, <3>3, ZenonT(60)
      <4>2. \A k \in Nat : \A p \in 1..k + 1 : p \in 1..k \/ p = k + 1
        OBVIOUS
      <4>3. n \in 1..Len(state)
        BY <4>1, <4>2, ZenonT(60)
      <4> QED BY <1>4, <3>3, <4>3, ZenonT(60)
    <3> QED BY <3>1, <3>2, <3>3
  <2> QED BY <2>1, <2>2
<1>8. ModelIsCompletedPanels'
  BY <1>6, <1>7 DEF ModelIsCompletedPanels
<1> QED BY <1>2, <1>3, <1>8

LEMMA PanelInvNext == PanelInv /\ [PanelNext]_panelVars => PanelInv'
<1> SUFFICES ASSUME PanelInv, [PanelNext]_panelVars PROVE PanelInv'
  OBVIOUS
<1> DEFINE Kept == /\ SessionPinnedOnce' /\ OneOutstanding' /\ OutstandingIsNewest'
                   /\ ModelIsCompletedPanels'
<1> USE DEF PanelTypeOK
<1>0. PanelTypeOK /\ PanelTypeOK'
  BY PanelTypeNext DEF PanelInv
<1>1. ASSUME UNCHANGED <<panel, state, order>> PROVE Kept
  BY <1>0, <1>1, DecisionEnds
<1>2. ASSUME NEW t \in Thread, Dispose(t) PROVE Kept
  <2>1. \A i \in Input : \/ panel'[i] = panel[i]
                         \/ panel[i] # "completed" /\ panel'[i] \notin {"prepared", "completed"}
    BY <1>0, <1>2 DEF Dispose, Disposition, Terminal
  <2>2. UNCHANGED <<state, order>>
    BY <1>2 DEF Dispose
  <2> QED BY <1>0, <2>1, <2>2, DecisionEnds
<1>3. ASSUME NEW t \in Thread, Prepare(t) PROVE Kept
  <2> DEFINE i == duty[t].input
  <2>1. i \in Input /\ UNCHANGED <<state, order>>
    BY <1>0, <1>3 DEF Prepare
  <2>2. \/ UNCHANGED panel
        \/ panel[i] = "none" /\ panel' = [panel EXCEPT ![i] = "rejected_correction"]
        \/ /\ panel[i] = "none" /\ ~Superseded(i) /\ ~Pinned(i) /\ ~Outstanding
           /\ panel' = [panel EXCEPT ![i] = "prepared"]
    BY <1>3 DEF Prepare
  <2> HIDE DEF i
  <2>3. CASE panel[i] = "none" /\ panel' = [panel EXCEPT ![i] = "rejected_correction"]
    BY <1>0, <2>1, <2>3, DecisionEnds
  <2> QED BY <1>1, <2>1, <2>2, <2>3, PanelPrepared
<1>4. ASSUME NEW t \in Thread, Process(t) PROVE Kept
  <2> DEFINE i == duty[t].input
  <2>1. i \in Input
    BY <1>0, <1>4 DEF Process
  <2>2. \/ UNCHANGED <<panel, state, order>>
        \/ /\ panel[i] = "prepared" /\ panel' = [panel EXCEPT ![i] = "expired"]
           /\ UNCHANGED <<state, order>>
        \/ /\ panel[i] = "prepared" /\ panel' = [panel EXCEPT ![i] = "completed"]
           /\ state' = Append(state, i) /\ order' = Append(order, i)
    BY <1>4 DEF Process, PreState
  <2> HIDE DEF i
  <2>3. CASE /\ panel[i] = "prepared" /\ panel' = [panel EXCEPT ![i] = "expired"]
             /\ UNCHANGED <<state, order>>
    BY <1>0, <2>1, <2>3, DecisionEnds
  <2> QED BY <1>1, <2>1, <2>2, <2>3, PanelCompleted
<1>5. \/ UNCHANGED <<panel, state, order>>
      \/ \E t \in Thread : Dispose(t) \/ Prepare(t) \/ Process(t)
  BY DEF PanelNext, ThreadStep, Classify, Register, SubmitPanel, SessionCloses,
         Poll, Restart, panelVars
<1> QED BY <1>0, <1>1, <1>2, <1>3, <1>4, <1>5 DEF PanelInv

(* The journal, the durable model and the threads that work on them agree     *)
(* between any two steps of the runner.                                       *)
THEOREM PanelInvariant == PanelSpec => []PanelInv
<1>1. PanelInit => PanelInv
  <2> SUFFICES ASSUME PanelInit PROVE PanelInv
    OBVIOUS
  <2>1. \A i \in Input : panel[i] = "none"
    BY DEF PanelInit
  <2>2. state = order /\ DOMAIN state = {}
    BY DEF PanelInit
  <2>3. SessionPinnedOnce /\ OneOutstanding /\ OutstandingIsNewest
    BY <2>1 DEF SessionPinnedOnce, OneOutstanding, OutstandingIsNewest
  <2>4. ModelIsCompletedPanels
    BY <2>1, <2>2 DEF ModelIsCompletedPanels
  <2> QED BY <2>3, <2>4, PanelTypeInit DEF PanelInv
<1> QED BY <1>1, PanelInvNext, PTL DEF PanelSpec

(* Every official session is decided by one input, for any number of          *)
(* corrections and any interleaving of polls, submissions and restarts:       *)
(* prepare_panel pins the session without a unique index.                     *)
THEOREM SessionsPinned == PanelSpec => []SessionPinnedOnce
BY PanelInvariant, PTL DEF PanelInv

(* The durable model is exactly the completed panels in the order of their    *)
(* cutoffs, whatever commits fail and wherever the process stops.             *)
THEOREM ModelSound == PanelSpec => []ModelIsCompletedPanels
BY PanelInvariant, PTL DEF PanelInv

HIDE PanelAssumption

-----------------------------------------------------------------------------
(* The signal relay of the indicator worker.                                  *)
USE OutboxAssumption, SignalAssumption

(* The strengthening. The thread holds the claim of the record it posts, and  *)
(* everything older is published.                                             *)
HeldClaim ==
  loop.at \in {"post", "complete"} =>
    \E r \in Record : /\ loop.records = {r}
                      /\ Fenced(r) /\ r.attempts > 0
                      /\ \A o \in Older(r.event_id) : outbox[o].status = "published"

\* A row that was never claimed is available at once.
RowsTried ==
  \A e \in Event :
    /\ outbox[e].status = "pending" => outbox[e].available
    /\ outbox[e].status \in {"in_progress", "failed"} => outbox[e].attempts > 0

\* No row that was never tried waits for the thread.
NothingUntried == \A e \in Event : Claimable(e) => outbox[e].attempts > 0

QuietWhenIdle == loop.at \in {"wait", "drained"} /\ ~wake /\ ~owed => NothingUntried

SignalInv ==
  /\ SignalTypeOK
  /\ HeldClaim
  /\ RowsTried
  /\ QuietWhenIdle
  /\ DeliveredInOrder

LEMMA SignalInitInv == SignalInit => SignalInv
<1> SUFFICES ASSUME SignalInit PROVE SignalInv
  OBVIOUS
<1>1. AbsentRow \in Row
  BY DEF AbsentRow, Row, Status, FailureClass
<1>2. \A e \in Event : << >> \in Seq(AuditEntry)
  OBVIOUS
<1>3. OutboxTypeOK
  BY <1>1, <1>2 DEF SignalInit, OutboxInit, OutboxTypeOK
<1>4. \A e \in Event : outbox[e].status = "absent"
  BY DEF SignalInit, OutboxInit, AbsentRow
<1>5. Waiting \in [at : {"wait", "claim", "drained", "post", "complete"},
                   passes : 0..(MaxPasses - 1), records : SUBSET Record,
                   outcome : {"none", "ok", "transient"}]
  BY DEF Waiting
<1>6. SignalTypeOK
  <2>1. deaths \in 0..MaxLoopDeaths
    BY DEF SignalInit
  <2> QED BY <1>3, <1>5, <2>1 DEF SignalInit, SignalTypeOK
<1>7. HeldClaim
  BY DEF SignalInit, Waiting, HeldClaim
<1>8. RowsTried
  BY <1>4 DEF RowsTried
<1>9. QuietWhenIdle /\ DeliveredInOrder
  BY DEF SignalInit, QuietWhenIdle, DeliveredInOrder
<1> QED BY <1>6, <1>7, <1>8, <1>9 DEF SignalInv

-----------------------------------------------------------------------------
\* What the operations on the table do to one row, in the terms of the
\* invariant.
LEMMA RowEmitted ==
  ASSUME SignalInv, NEW e \in Event, Emit(e)
  PROVE  /\ OutboxTypeOK' /\ RowsTried'
         /\ outbox[e].status = "absent" /\ outbox'[e].status = "pending"
         /\ \A f \in Event : f # e => outbox'[f] = outbox[f]
<1>1. [AbsentRow EXCEPT !.status = "pending", !.available = TRUE] \in Row
  BY DEF AbsentRow, Row, Status, FailureClass
<1>2. OutboxTypeOK'
  BY <1>1 DEF Emit, OutboxTypeOK, SignalInv, SignalTypeOK
<1>3. /\ outbox'[e].status = "pending" /\ outbox'[e].available
      /\ \A f \in Event : f # e => outbox'[f] = outbox[f]
  BY DEF Emit, AbsentRow, OutboxTypeOK, SignalInv, SignalTypeOK
<1>4. RowsTried'
  BY <1>3 DEF RowsTried, SignalInv
<1> QED BY <1>2, <1>3, <1>4 DEF Emit

LEMMA ClaimedRowTyped ==
  ASSUME NEW row \in Row, NEW c \in Consumer
  PROVE  [row EXCEPT !.status = "in_progress", !.claim_owner = c,
                     !.leased = TRUE, !.attempts = @ + 1] \in Row
<1>1. row.attempts + 1 \in Nat
  BY SMTT(60) DEF Row
<1>2. /\ row.available \in BOOLEAN /\ row.failure_class \in FailureClass
      /\ row.redrive_generation \in Nat
  BY DEF Row
<1>3. "in_progress" \in Status
  BY DEF Status
<1> QED BY <1>1, <1>2, <1>3 DEF Row

LEMMA RowClaimed ==
  ASSUME SignalInv, NEW e \in Event, Deliverable(e), ClaimBatch({e}, SignalConsumer)
  PROVE  /\ OutboxTypeOK' /\ RowsTried'
         /\ outbox[e].status \notin {"published", "dead_letter", "absent"}
         /\ outbox'[e].status = "in_progress" /\ outbox'[e].claim_owner = SignalConsumer
         /\ outbox'[e].attempts = outbox[e].attempts + 1
         /\ \A f \in Event : f # e => outbox'[f] = outbox[f]
<1> DEFINE row == [outbox[e] EXCEPT !.status = "in_progress", !.claim_owner = SignalConsumer,
                                    !.leased = TRUE, !.attempts = @ + 1]
<1>1. outbox[e] \in Row /\ outbox \in [Event -> Row] /\ grants \in [Event -> Nat]
  BY DEF SignalInv, SignalTypeOK, OutboxTypeOK
<1>7. "in_progress" \in Status /\ outbox[e].attempts \in Nat
  BY <1>1 DEF Row, Status
<1>8. /\ row.status = "in_progress" /\ row.claim_owner = SignalConsumer
      /\ row.attempts = outbox[e].attempts + 1
  BY <1>1 DEF Row
<1>9. row \in Row
  BY <1>1, ClaimedRowTyped
<1>2. /\ row \in Row /\ row.status = "in_progress" /\ row.claim_owner = SignalConsumer
      /\ row.attempts = outbox[e].attempts + 1 /\ row.attempts > 0
  BY <1>7, <1>8, <1>9
<1> HIDE DEF row
<1>3. outbox' = [f \in Event |-> IF f \in {e} THEN row ELSE outbox[f]]
  BY DEF ClaimBatch, row
<1>4. OutboxTypeOK'
  <2>1. outbox' \in [Event -> Row]
    BY <1>1, <1>2, <1>3
  <2>2. /\ grants' = [f \in Event |-> IF f \in {e} THEN grants[f] + 1 ELSE grants[f]]
        /\ UNCHANGED audit
    BY DEF ClaimBatch
  <2>3. grants' \in [Event -> Nat]
    BY <1>1, <2>2, SMTT(60)
  <2> QED BY <2>1, <2>2, <2>3 DEF OutboxTypeOK, SignalInv, SignalTypeOK
<1>5. outbox'[e] = row /\ \A f \in Event : f # e => outbox'[f] = outbox[f]
  BY <1>3
<1>6. RowsTried'
  BY <1>2, <1>5 DEF RowsTried, SignalInv
<1> QED BY <1>2, <1>4, <1>5, <1>6 DEF Deliverable

LEMMA RowPublished ==
  ASSUME SignalInv, NEW r \in Record, Fenced(r), MarkPublished(r)
  PROVE  /\ OutboxTypeOK' /\ RowsTried'
         /\ outbox'[r.event_id].status = "published"
         /\ \A f \in Event : f # r.event_id => outbox'[f] = outbox[f]
<1> DEFINE e == r.event_id
<1> DEFINE row == [Released(outbox[e]) EXCEPT !.status = "published", !.failure_class = "none"]
<1>1. /\ e \in Event /\ outbox[e] \in Row /\ outbox \in [Event -> Row]
  BY DEF SignalInv, SignalTypeOK, OutboxTypeOK, Record
<1>2. row \in Row /\ row.status = "published"
  BY <1>1 DEF Row, Released, Status, FailureClass
<1>3. outbox' = [outbox EXCEPT ![e] = row] /\ UNCHANGED <<audit, grants>>
  BY DEF MarkPublished
<1> HIDE DEF row, e
<1>4. OutboxTypeOK'
  BY <1>1, <1>2, <1>3 DEF OutboxTypeOK, SignalInv, SignalTypeOK
<1>5. outbox'[e] = row /\ \A f \in Event : f # e => outbox'[f] = outbox[f]
  BY <1>1, <1>3
<1>6. RowsTried'
  BY <1>2, <1>5 DEF RowsTried, SignalInv
<1> QED BY <1>2, <1>4, <1>5, <1>6 DEF e

LEMMA RowFailed ==
  ASSUME SignalInv, NEW r \in Record, Fenced(r), r.attempts > 0, MarkFailed(r, "transient")
  PROVE  /\ OutboxTypeOK' /\ RowsTried'
         /\ outbox'[r.event_id].status \in {"failed", "dead_letter"}
         /\ outbox'[r.event_id].attempts > 0
         /\ \A f \in Event : f # r.event_id => outbox'[f] = outbox[f]
<1> DEFINE e == r.event_id
<1> DEFINE row == [Released(outbox[e]) EXCEPT !.status = StatusAfterFailure(e, "transient"),
                                              !.available = FALSE,
                                              !.failure_class = "transient"]
<1>1. /\ e \in Event /\ outbox[e] \in Row /\ outbox \in [Event -> Row]
      /\ outbox[e].attempts = r.attempts
  BY DEF SignalInv, SignalTypeOK, OutboxTypeOK, Record, Fenced
<1>2. StatusAfterFailure(e, "transient") \in {"failed", "dead_letter"}
  BY DEF StatusAfterFailure
<1>3. /\ row \in Row /\ row.status \in {"failed", "dead_letter"}
      /\ row.attempts = r.attempts
  BY <1>1, <1>2 DEF Row, Released, Status, FailureClass
<1>4. outbox' = [outbox EXCEPT ![e] = row] /\ UNCHANGED <<audit, grants>>
  BY DEF MarkFailed
<1> HIDE DEF row, e
<1>5. OutboxTypeOK'
  BY <1>1, <1>3, <1>4 DEF OutboxTypeOK, SignalInv, SignalTypeOK
<1>6. outbox'[e] = row /\ \A f \in Event : f # e => outbox'[f] = outbox[f]
  BY <1>1, <1>4
<1>7. RowsTried'
  BY <1>3, <1>6 DEF RowsTried, SignalInv
<1> QED BY <1>3, <1>5, <1>6, <1>7 DEF e

\* The clocks touch no status, owner or count.
LEMMA RowTimed ==
  ASSUME SignalInv, NEW e \in Event, BecomesAvailable(e) \/ LeaseLapses(e)
  PROVE  /\ OutboxTypeOK' /\ RowsTried'
         /\ outbox[e].attempts > 0 \/ outbox'[e] = outbox[e]
         /\ \A f \in Event : /\ outbox'[f].status = outbox[f].status
                             /\ outbox'[f].claim_owner = outbox[f].claim_owner
                             /\ outbox'[f].attempts = outbox[f].attempts
                             /\ f # e => outbox'[f] = outbox[f]
<1>1. outbox[e] \in Row /\ outbox \in [Event -> Row]
  BY DEF SignalInv, SignalTypeOK, OutboxTypeOK
<1>2. PICK row \in Row : /\ outbox' = [outbox EXCEPT ![e] = row]
                         /\ row.status = outbox[e].status
                         /\ row.claim_owner = outbox[e].claim_owner
                         /\ row.attempts = outbox[e].attempts
                         /\ row.status = "pending" => row.available
  <2>1. CASE BecomesAvailable(e)
    <3> DEFINE new == [outbox[e] EXCEPT !.available = TRUE]
    <3>1. new \in Row
      BY <1>1 DEF Row
    <3>2. /\ outbox' = [outbox EXCEPT ![e] = new]
          /\ new.status = outbox[e].status /\ new.claim_owner = outbox[e].claim_owner
          /\ new.attempts = outbox[e].attempts /\ (new.status = "pending" => new.available)
      BY <1>1, <2>1, SMTT(60) DEF BecomesAvailable, Row
    <3> HIDE DEF new
    <3> QED BY <3>1, <3>2
  <2>2. CASE LeaseLapses(e)
    <3> DEFINE new == [outbox[e] EXCEPT !.leased = FALSE]
    <3>1. new \in Row
      BY <1>1 DEF Row
    <3>2. /\ outbox' = [outbox EXCEPT ![e] = new]
          /\ new.status = outbox[e].status /\ new.claim_owner = outbox[e].claim_owner
          /\ new.attempts = outbox[e].attempts /\ (new.status = "pending" => new.available)
      BY <1>1, <2>2, SMTT(60) DEF LeaseLapses, Row
    <3> HIDE DEF new
    <3> QED BY <3>1, <3>2
  <2> QED BY <2>1, <2>2
<1>3. OutboxTypeOK'
  BY <1>1, <1>2 DEF BecomesAvailable, LeaseLapses, OutboxTypeOK, SignalInv, SignalTypeOK
<1>4. outbox'[e] = row /\ \A f \in Event : f # e => outbox'[f] = outbox[f]
  BY <1>1, <1>2
<1>5. RowsTried'
  BY <1>2, <1>4, SMTT(60) DEF RowsTried, SignalInv
<1>6. outbox[e].attempts > 0 \/ outbox'[e] = outbox[e]
  BY DEF BecomesAvailable, LeaseLapses, RowsTried, SignalInv
<1> QED BY <1>2, <1>3, <1>4, <1>5, <1>6

-----------------------------------------------------------------------------
\* A step that publishes nothing new and unpublishes nothing keeps what the
\* claimed record and the received events need.
LEMMA PublishedStays ==
  ASSUME SignalInv, SignalNext, NEW o \in Event, outbox[o].status = "published"
  PROVE  outbox'[o].status = "published"
<1>1. ASSUME NEW e \in Event, Emit(e) PROVE outbox'[o].status = "published"
  BY <1>1, RowEmitted
<1>2. ASSUME NEW e \in Event, SignalBackoff(e) \/ SignalLease(e)
      PROVE  outbox'[o].status = "published"
  BY <1>2, RowTimed DEF SignalBackoff, SignalLease
<1>3. ASSUME ClaimNext PROVE outbox'[o].status = "published"
  <2>1. CASE UNCHANGED outboxVars
    BY <2>1 DEF outboxVars
  <2>2. ASSUME NEW e \in Event, Claimable(e), ClaimBatch({e}, SignalConsumer)
        PROVE  outbox'[o].status = "published"
    BY <2>2, RowClaimed DEF Claimable
  <2> QED BY <1>3, <2>1, <2>2 DEF ClaimNext
<1>4. ASSUME CompletePass PROVE outbox'[o].status = "published"
  <2>1. PICK r \in Record : /\ loop.records = {r} /\ Fenced(r) /\ r.attempts > 0
    BY <1>4 DEF CompletePass, SignalInv, HeldClaim
  <2>2. MarkPublished(r) \/ MarkFailed(r, "transient")
    BY <1>4, <2>1 DEF CompletePass
  <2>3. r.event_id # o
    BY <2>1 DEF Fenced
  <2> QED BY <2>1, <2>2, <2>3, RowPublished, RowFailed
<1>5. ASSUME StartDrain \/ EndDrain \/ PostSignal \/ Wake \/ WorkerRestarts
      PROVE  outbox'[o].status = "published"
  BY <1>5 DEF StartDrain, EndDrain, PostSignal, Wake, WorkerRestarts, outboxVars
<1> QED BY <1>1, <1>2, <1>3, <1>4, <1>5 DEF SignalNext, LoopStep

LEMMA SignalInvNext == SignalInv /\ [SignalNext]_signalVars => SignalInv'
<1> SUFFICES ASSUME SignalInv, [SignalNext]_signalVars PROVE SignalInv'
  OBVIOUS
<1> DEFINE LoopType == [at : {"wait", "claim", "drained", "post", "complete"},
                        passes : 0..(MaxPasses - 1), records : SUBSET Record,
                        outcome : {"none", "ok", "transient"}]
<1>0. /\ OutboxTypeOK /\ loop \in LoopType /\ wake \in BOOLEAN /\ owed \in BOOLEAN
      /\ received \subseteq Event /\ deaths \in 0..MaxLoopDeaths
  BY DEF SignalInv, SignalTypeOK
<1>w. Waiting \in LoopType
  BY DEF Waiting
<1>d. ASSUME SignalNext, received' = received PROVE DeliveredInOrder'
  <2> SUFFICES ASSUME NEW e \in received, NEW o \in Older(e)
               PROVE  outbox'[o].status = "published"
    BY <1>d DEF DeliveredInOrder, Older
  <2>1. o \in Event /\ outbox[o].status = "published"
    BY DEF DeliveredInOrder, Older, SignalInv
  <2> QED BY <1>d, <2>1, PublishedStays
<1>1. ASSUME NEW e \in Event, Emit(e) PROVE SignalInv'
  <2>1. OutboxTypeOK' /\ RowsTried'
    BY <1>1, RowEmitted
  <2>2. SignalTypeOK'
    BY <1>0, <1>1, <2>1 DEF Emit, SignalTypeOK
  <2>3. HeldClaim'
    <3> SUFFICES ASSUME loop.at \in {"post", "complete"} PROVE HeldClaim'
      BY <1>1 DEF Emit, HeldClaim
    <3>1. PICK r \in Record : /\ loop.records = {r} /\ Fenced(r) /\ r.attempts > 0
                              /\ \A o \in Older(r.event_id) : outbox[o].status = "published"
      BY DEF SignalInv, HeldClaim
    <3>2. r.event_id \in Event /\ r.event_id # e
      BY <1>1, <3>1 DEF Emit, Fenced, Record
    <3>3. Fenced(r)'
      BY <1>1, <3>1, <3>2, RowEmitted DEF Fenced
    <3>4. \A o \in Older(r.event_id) : outbox'[o].status = "published"
      BY <1>1, <3>1, RowEmitted DEF Older
    <3> QED BY <1>1, <3>1, <3>3, <3>4 DEF Emit, HeldClaim
  <2>4. QuietWhenIdle'
    BY <1>1 DEF Emit, QuietWhenIdle
  <2>5. DeliveredInOrder'
    BY <1>1, <1>d DEF Emit, SignalNext
  <2> QED BY <2>1, <2>2, <2>3, <2>4, <2>5 DEF SignalInv
<1>2. ASSUME Wake PROVE SignalInv'
  <2>1. UNCHANGED <<outbox, audit, grants, loop, received, deaths>> /\ wake' = TRUE /\ owed' = FALSE
    BY <1>2 DEF Wake, outboxVars
  <2>2. SignalTypeOK' /\ RowsTried'
    BY <1>0, <2>1 DEF SignalTypeOK, OutboxTypeOK, RowsTried, SignalInv
  <2>3. HeldClaim'
    BY <2>1 DEF HeldClaim, Fenced, SignalInv
  <2>4. QuietWhenIdle' /\ DeliveredInOrder'
    BY <2>1 DEF QuietWhenIdle, DeliveredInOrder, SignalInv
  <2> QED BY <2>2, <2>3, <2>4 DEF SignalInv
<1>3. ASSUME StartDrain PROVE SignalInv'
  <2>1. /\ UNCHANGED <<outbox, audit, grants, owed, received, deaths>> /\ wake' = FALSE
        /\ loop' = [loop EXCEPT !.at = "claim"]
    BY <1>3 DEF StartDrain, outboxVars
  <2>2. loop' \in LoopType /\ loop'.at = "claim"
    BY <1>0, <2>1
  <2>3. SignalTypeOK' /\ RowsTried'
    BY <1>0, <2>1, <2>2 DEF SignalTypeOK, OutboxTypeOK, RowsTried, SignalInv
  <2>4. HeldClaim' /\ QuietWhenIdle'
    BY <2>2 DEF HeldClaim, QuietWhenIdle
  <2>5. DeliveredInOrder'
    BY <2>1 DEF DeliveredInOrder, SignalInv
  <2> QED BY <2>3, <2>4, <2>5 DEF SignalInv
<1>4. ASSUME ClaimNext PROVE SignalInv'
  <2>0. UNCHANGED <<wake, owed, received, deaths>> /\ loop.at = "claim" /\ DeliveredInOrder'
    BY <1>4, <1>d DEF ClaimNext, SignalNext, LoopStep
  <2>1. CASE /\ \A e \in Event : ~Claimable(e)
             /\ loop' = [loop EXCEPT !.at = "drained"] /\ UNCHANGED outboxVars
    <3>1. UNCHANGED <<outbox, audit, grants>> /\ loop' \in LoopType /\ loop'.at = "drained"
      BY <1>0, <2>1 DEF outboxVars
    <3>2. SignalTypeOK' /\ RowsTried' /\ HeldClaim'
      BY <1>0, <2>0, <3>1 DEF SignalTypeOK, OutboxTypeOK, RowsTried, HeldClaim, SignalInv
    <3>3. QuietWhenIdle'
      BY <2>1, <3>1 DEF QuietWhenIdle, NothingUntried, Claimable, Deliverable
    <3> QED BY <2>0, <3>2, <3>3 DEF SignalInv
  <2>2. ASSUME NEW e \in Event, Claimable(e), ClaimBatch({e}, SignalConsumer),
               loop' = [loop EXCEPT !.at = "post",
                                    !.records = {ClaimedRecord(e, SignalConsumer)}]
        PROVE  SignalInv'
    <3>1. PICK r \in Record : /\ r = ClaimedRecord(e, SignalConsumer)
                              /\ r.event_id = e /\ r.claim_owner = SignalConsumer
                              /\ r.attempts = outbox[e].attempts + 1 /\ r.attempts > 0
      <4>1. outbox[e].attempts \in Nat /\ outbox[e].redrive_generation \in Nat /\ grants[e] \in Nat
        BY <1>0 DEF OutboxTypeOK, Row
      <4> DEFINE a == outbox[e].attempts + 1
                 g == grants[e] + 1
                 d == outbox[e].redrive_generation
      <4>2. a \in Nat /\ a > 0 /\ g \in Nat /\ d \in Nat
        BY <4>1
      <4>3. ClaimedRecord(e, SignalConsumer)
              = [event_id |-> e, claim_owner |-> SignalConsumer, attempts |-> a,
                 redrive_generation |-> d, grant |-> g]
        BY DEF ClaimedRecord
      <4> HIDE DEF a, g, d
      <4>4. SignalConsumer \in Consumer
        OBVIOUS
      <4>5. ClaimedRecord(e, SignalConsumer) \in Record
        BY <4>2, <4>3, <4>4 DEF Record
      <4>6. /\ ClaimedRecord(e, SignalConsumer).event_id = e
            /\ ClaimedRecord(e, SignalConsumer).claim_owner = SignalConsumer
            /\ ClaimedRecord(e, SignalConsumer).attempts = a
        BY <4>3
      <4> QED BY <4>2, <4>5, <4>6 DEF a
    <3>2. /\ loop' \in LoopType /\ loop'.at = "post" /\ loop'.records = {r}
      BY <1>0, <2>2, <3>1
    <3>3. /\ OutboxTypeOK' /\ RowsTried'
          /\ outbox'[e].status = "in_progress" /\ outbox'[e].claim_owner = SignalConsumer
          /\ outbox'[e].attempts = outbox[e].attempts + 1
          /\ \A f \in Event : f # e => outbox'[f] = outbox[f]
      BY <2>2, RowClaimed DEF Claimable
    <3>4. Fenced(r)'
      BY <3>1, <3>3 DEF Fenced
    <3>5. \A o \in Older(e) : outbox'[o].status = "published"
      BY <2>2, <3>3, SMTT(60) DEF Claimable, Older
    <3>6. HeldClaim'
      BY <3>1, <3>2, <3>4, <3>5 DEF HeldClaim
    <3>7. SignalTypeOK'
      BY <1>0, <2>0, <3>2, <3>3 DEF SignalTypeOK
    <3>8. QuietWhenIdle'
      BY <3>2 DEF QuietWhenIdle
    <3> QED BY <2>0, <3>3, <3>6, <3>7, <3>8 DEF SignalInv
  <2> QED BY <1>4, <2>1, <2>2 DEF ClaimNext
<1>5. ASSUME EndDrain PROVE SignalInv'
  <2>1. /\ UNCHANGED <<outbox, audit, grants, wake, owed, received, deaths>>
        /\ loop.at = "drained" /\ loop' = Waiting /\ Waiting.at = "wait"
    BY <1>5 DEF EndDrain, outboxVars, Waiting
  <2>2. SignalTypeOK' /\ RowsTried'
    BY <1>0, <1>w, <2>1 DEF SignalTypeOK, OutboxTypeOK, RowsTried, SignalInv
  <2>3. HeldClaim' /\ DeliveredInOrder'
    BY <2>1 DEF HeldClaim, DeliveredInOrder, SignalInv
  <2>4. QuietWhenIdle'
    BY <2>1 DEF QuietWhenIdle, NothingUntried, Claimable, Deliverable, SignalInv
  <2> QED BY <2>2, <2>3, <2>4 DEF SignalInv
<1>6. ASSUME PostSignal PROVE SignalInv'
  <2>1. PICK r \in Record : /\ loop.records = {r} /\ Fenced(r) /\ r.attempts > 0
                            /\ \A o \in Older(r.event_id) : outbox[o].status = "published"
    BY <1>6 DEF PostSignal, SignalInv, HeldClaim
  <2>2. PICK outcome \in {"ok", "transient"} : loop' = [loop EXCEPT !.at = "complete", !.outcome = outcome]
    BY <1>6 DEF PostSignal
  <2>3. UNCHANGED <<outbox, audit, grants, wake, owed, deaths>>
    BY <1>6 DEF PostSignal, outboxVars
  <2>4. received' = received \/ received' = received \cup {r.event_id}
    BY <1>6, <2>1 DEF PostSignal
  <2>5. /\ loop' \in LoopType /\ loop'.at = "complete" /\ loop'.records = {r}
        /\ r.event_id \in Event
    BY <1>0, <2>1, <2>2 DEF Record
  <2>6. SignalTypeOK' /\ RowsTried'
    <3>1. received' \subseteq Event
      BY <1>0, <2>4, <2>5 DEF SignalTypeOK, SignalInv
    <3> QED BY <1>0, <2>3, <2>5, <3>1 DEF SignalTypeOK, OutboxTypeOK, RowsTried, SignalInv
  <2>7. HeldClaim'
    BY <2>1, <2>3, <2>5 DEF HeldClaim, Fenced
  <2>8. QuietWhenIdle'
    BY <2>5 DEF QuietWhenIdle
  <2>9. DeliveredInOrder'
    BY <2>1, <2>3, <2>4 DEF DeliveredInOrder, SignalInv
  <2> QED BY <2>6, <2>7, <2>8, <2>9 DEF SignalInv
<1>7. ASSUME CompletePass PROVE SignalInv'
  <2>1. PICK r \in Record : /\ loop.records = {r} /\ Fenced(r) /\ r.attempts > 0
                            /\ \A o \in Older(r.event_id) : outbox[o].status = "published"
    BY <1>7 DEF CompletePass, SignalInv, HeldClaim
  <2>2. IF loop.outcome = "ok" THEN MarkPublished(r) ELSE MarkFailed(r, "transient")
    BY <1>7, <2>1 DEF CompletePass
  <2>3. UNCHANGED <<owed, received, deaths>> /\ DeliveredInOrder'
    BY <1>7, <1>d DEF CompletePass, SignalNext, LoopStep
  <2>4. OutboxTypeOK' /\ RowsTried'
    BY <2>1, <2>2, RowPublished, RowFailed
  <2>5. /\ loop' \in LoopType /\ loop'.at \in {"claim", "wait"} /\ wake' \in BOOLEAN
    <3>1. loop.passes + 1 < MaxPasses =>
            /\ [Waiting EXCEPT !.at = "claim", !.passes = loop.passes + 1] \in LoopType
            /\ [Waiting EXCEPT !.at = "claim", !.passes = loop.passes + 1].at = "claim"
      <4>1. loop.passes + 1 < MaxPasses => loop.passes + 1 \in 0..(MaxPasses - 1)
        BY <1>0, SMTT(60)
      <4> QED BY <4>1 DEF Waiting
    <3>2. Waiting.at = "wait"
      BY DEF Waiting
    <3> QED BY <1>0, <1>7, <1>w, <3>1, <3>2 DEF CompletePass
  <2>6. SignalTypeOK' /\ HeldClaim'
    BY <1>0, <2>3, <2>4, <2>5 DEF SignalTypeOK, HeldClaim
  <2>7. CASE loop.outcome = "ok"
    <3>1. wake' = TRUE \/ loop'.at = "claim"
      BY <1>7, <2>7 DEF CompletePass, Waiting
    <3> QED BY <2>3, <2>4, <2>6, <3>1 DEF SignalInv, QuietWhenIdle
  <2>8. CASE loop.outcome # "ok"
    <3>1. /\ outbox'[r.event_id].status \in {"failed", "dead_letter"}
          /\ outbox'[r.event_id].attempts > 0
          /\ \A f \in Event : f # r.event_id => outbox'[f] = outbox[f]
      BY <2>1, <2>2, <2>8, RowFailed
    <3>2. ASSUME NEW e \in Event, Claimable(e)' PROVE outbox'[e].attempts > 0
      <4>1. r.event_id \in Event /\ Event \subseteq Nat
        BY DEF Record
      <4>2. CASE e < r.event_id
        <5>1. e \in Older(r.event_id) /\ outbox'[e] = outbox[e]
          BY <3>1, <4>1, <4>2, SMTT(60) DEF Older
        <5> QED BY <2>1, <3>2, <5>1 DEF Claimable, Deliverable
      <4>3. CASE r.event_id < e
        <5>1. r.event_id \in Older(e)
          BY <4>1, <4>3 DEF Older
        <5> QED BY <3>1, <3>2, <5>1 DEF Claimable, Older
      <4>4. CASE e = r.event_id
        BY <3>1, <4>4
      <4>5. e \in Nat /\ r.event_id \in Nat
        BY <4>1
      <4>6. e < r.event_id \/ r.event_id < e \/ e = r.event_id
        BY <4>5
      <4> QED BY <4>2, <4>3, <4>4, <4>6
    <3> QED BY <2>3, <2>4, <2>6, <3>2 DEF SignalInv, QuietWhenIdle, NothingUntried
  <2> QED BY <2>7, <2>8
<1>8. ASSUME WorkerRestarts PROVE SignalInv'
  <2>1. /\ UNCHANGED <<outbox, audit, grants, received>> /\ wake' = TRUE /\ owed' = FALSE
        /\ loop' = Waiting /\ Waiting.at = "wait"
    BY <1>8 DEF WorkerRestarts, outboxVars, Waiting
  <2>2. deaths' \in 0..MaxLoopDeaths
    BY <1>0, <1>8, SMTT(60) DEF WorkerRestarts
  <2>3. SignalTypeOK' /\ RowsTried'
    BY <1>0, <1>w, <2>1, <2>2 DEF SignalTypeOK, OutboxTypeOK, RowsTried, SignalInv
  <2>4. HeldClaim' /\ DeliveredInOrder' /\ QuietWhenIdle'
    BY <2>1 DEF HeldClaim, DeliveredInOrder, QuietWhenIdle, SignalInv
  <2> QED BY <2>3, <2>4 DEF SignalInv
<1>9. ASSUME NEW e \in Event, SignalBackoff(e) \/ SignalLease(e) PROVE SignalInv'
  <2>1. /\ OutboxTypeOK' /\ RowsTried'
        /\ outbox[e].attempts > 0 \/ outbox'[e] = outbox[e]
        /\ \A f \in Event : /\ outbox'[f].status = outbox[f].status
                            /\ outbox'[f].claim_owner = outbox[f].claim_owner
                            /\ outbox'[f].attempts = outbox[f].attempts
                            /\ f # e => outbox'[f] = outbox[f]
    BY <1>9, RowTimed DEF SignalBackoff, SignalLease
  <2>2. UNCHANGED <<loop, wake, owed, received, deaths>>
    BY <1>9 DEF SignalBackoff, SignalLease
  <2>3. SignalTypeOK'
    BY <1>0, <2>1, <2>2 DEF SignalTypeOK
  <2>4. HeldClaim'
    <3> SUFFICES ASSUME loop.at \in {"post", "complete"} PROVE HeldClaim'
      BY <2>2 DEF HeldClaim
    <3>1. PICK r \in Record : /\ loop.records = {r} /\ Fenced(r) /\ r.attempts > 0
                              /\ \A o \in Older(r.event_id) : outbox[o].status = "published"
      BY DEF SignalInv, HeldClaim
    <3>2. Fenced(r)'
      BY <2>1, <3>1 DEF Fenced, Record
    <3>3. \A o \in Older(r.event_id) : outbox'[o].status = "published"
      BY <2>1, <3>1 DEF Older
    <3> QED BY <2>2, <3>1, <3>2, <3>3 DEF HeldClaim
  <2>5. ASSUME NothingUntried PROVE NothingUntried'
    <3> SUFFICES ASSUME NEW f \in Event, Claimable(f)' PROVE outbox'[f].attempts > 0
      BY DEF NothingUntried
    <3>1. CASE f = e /\ outbox[e].attempts > 0
      BY <2>1, <3>1
    <3>2. CASE outbox'[f] = outbox[f]
      <4>1. Claimable(f)
        BY <2>1, <3>2 DEF Claimable, Deliverable, Older
      <4> QED BY <2>5, <3>2, <4>1 DEF NothingUntried
    <3> QED BY <2>1, <3>1, <3>2
  <2>6. QuietWhenIdle'
    BY <2>2, <2>5 DEF QuietWhenIdle, SignalInv
  <2>7. DeliveredInOrder'
    BY <1>9, <1>d, <2>2 DEF SignalNext
  <2> QED BY <2>1, <2>3, <2>4, <2>6, <2>7 DEF SignalInv
<1>10. CASE UNCHANGED signalVars
  <2>1. UNCHANGED <<outbox, audit, grants, loop, wake, owed, received, deaths>>
    BY <1>10 DEF signalVars, outboxVars
  <2>2. SignalTypeOK' /\ RowsTried'
    BY <1>0, <2>1 DEF SignalTypeOK, OutboxTypeOK, RowsTried, SignalInv
  <2>3. HeldClaim' /\ DeliveredInOrder'
    BY <2>1 DEF HeldClaim, Fenced, DeliveredInOrder, SignalInv
  <2>4. QuietWhenIdle'
    BY <2>1 DEF QuietWhenIdle, NothingUntried, Claimable, Deliverable, SignalInv
  <2> QED BY <2>2, <2>3, <2>4 DEF SignalInv
<1> QED BY <1>1, <1>2, <1>3, <1>4, <1>5, <1>6, <1>7, <1>8, <1>9, <1>10
        DEF SignalNext, LoopStep

(* The delivery thread holds the claim of the record it posts, with all older *)
(* ones published, and sleeps only when nothing untried is left or it is yet  *)
(* to be woken.                                                               *)
THEOREM SignalInvariant == SignalSpec => []SignalInv
BY SignalInitInv, SignalInvNext, PTL DEF SignalSpec

(* Scoring receives a signal only after every older signal of the worker was  *)
(* published, for any number of signals, retries, lapsed leases and restarts  *)
(* (the ordered mode of claim_batch).                                         *)
THEOREM SignalsInOrder == SignalSpec => []DeliveredInOrder
BY SignalInvariant, PTL DEF SignalInv

(* No wake is lost: clearing the event before the drain and re-arming it at   *)
(* the pass cap leave no untried signal behind a sleeping delivery thread.    *)
THEOREM WakesKept == SignalSpec => []NoWakeLost
<1>1. SignalInv => NoWakeLost
  BY DEF SignalInv, QuietWhenIdle, NothingUntried, NoWakeLost
<1> QED BY <1>1, SignalInvariant, PTL

=============================================================================
